---- MODULE Spec2Model ----
(***************************************************************************)
(* Piece-acquisition engine of the bittorrent client: PieceManager,        *)
(* PieceRequester, Leecher and the parts of Swarm / Peer they drive.       *)
(*                                                                         *)
(* Python objects are modelled by reference: a Piece is PieceObj(i), a     *)
(* Block is BlockObj(i, begin) and a plain integer is IntObj(n), so that the  *)
(* membership tests of the code (tuple equality, which falls back to       *)
(* object identity for Piece and Block) evaluate as they do in Python.     *)
(* Byte strings are sequences of small naturals.                           *)
(***************************************************************************)
EXTENDS Integers, Sequences, FiniteSets, TLC

\* ---------------------------------------------------------------- bounds
NumPeers == 2
MaxQueue == 1
MaxBlockRequestsCfg == 1
MaxFrames == 3
BlockSize == 2
MaxConnectionsCfg == 2
MaxRegistrations == 2
MaxSwarmFrames == 2
MaxConnects == 2

\* ------------------------------------------------------ program constants
MAX_INCOMING_BLOCK_REQUESTS == 10
MAX_CONNECTIONS == 200

PeerIds == 1..NumPeers

\* The torrents the engine is run on: <<piece_length, total_length>>.
\*   one block per piece, two pieces; two blocks per piece, one piece;
\*   two blocks per piece and a short last piece.
Torrents ==
    { <<BlockSize, 2 * BlockSize>>,
      <<2 * BlockSize, 2 * BlockSize>>,
      <<2 * BlockSize, 3 * BlockSize>> }

\* ------------------------------------------------------------- utilities
Range(s) == { s[k] : k \in 1..Len(s) }

Min(a, b) == IF a <= b THEN a ELSE b

CeilDiv(a, b) == (a + b - 1) \div b

RECURSIVE Concat(_)
Concat(ss) == IF ss = <<>> THEN <<>> ELSE Head(ss) \o Concat(Tail(ss))

\* list.remove(x): drops the first occurrence.
RemoveFirst(s, x) ==
    LET k == CHOOSE j \in 1..Len(s) : s[j] = x /\ \A h \in 1..(j - 1) : s[h] # x
    IN  SubSeq(s, 1, k - 1) \o SubSeq(s, k + 1, Len(s))

\* --------------------------------------------------------- object values
IntObj(n) == <<"int", n>>
PieceObj(i) == <<"Piece", i>>
BlockObj(i, begin) == <<"Block", i, begin>>

\* ------------------------------------------------------------ Torrent
total_pieces(t) == CeilDiv(t[2], t[1])
last_piece_length(t) == t[2] % t[1]
last_piece_index(t) == total_pieces(t) - 1

\* Content of the torrent: the byte at global offset g.
TrueByte(g) == g % 3

\* The bytes of piece i as the torrent's author hashed them.
TruePieceLength(t, i) == Min(t[1], t[2] - i * t[1])
TruePiece(t, i) == [k \in 1..TruePieceLength(t, i) |-> TrueByte(i * t[1] + k - 1)]

\* hashlib.sha1(...).digest(), idealised as collision free.
Sha1(data) == <<"sha1", Len(data), data>>

\* info[b"pieces"]: one digest per piece, in index order.
PiecesHash(t) == [k \in 1..total_pieces(t) |-> Sha1(TruePiece(t, k - 1))]

\* ------------------------------------------------------------ Block / Piece
Block(begin, length, st) == [begin |-> begin, length |-> length, status |-> st, data |-> <<>>]

create_pieces(piece_length, lpl, tp, lpi, available, block_size) ==
    LET blocks_per_piece == piece_length \div block_size
        block_status == IF available THEN "available" ELSE "missing"
        blocks_in_last_piece == CeilDiv(lpl, block_size)
    IN  [piece_index \in 0..(tp - 1) |->
            IF piece_index = lpi /\ lpl > 0
            THEN [k \in 1..blocks_in_last_piece |->
                    Block((k - 1) * block_size,
                          IF k - 1 = blocks_in_last_piece - 1 THEN lpl % block_size ELSE block_size,
                          block_status)]
            ELSE [k \in 1..blocks_per_piece |-> Block((k - 1) * block_size, block_size, block_status)]]

all_blocks_available(blocks) == \A k \in 1..Len(blocks) : blocks[k].status = "available"

get_blocks_data(blocks) == Concat([k \in 1..Len(blocks) |-> blocks[k].data])

clear_blocks_data(blocks) == [k \in 1..Len(blocks) |-> [blocks[k] EXCEPT !.data = <<>>]]

set_all_blocks_status_as_missing(blocks) ==
    [k \in 1..Len(blocks) |-> [blocks[k] EXCEPT !.status = "missing"]]

has_block(blocks, begin) == \E k \in 1..Len(blocks) : blocks[k].begin = begin

\* position of the first block with that begin
BlockPos(blocks, begin) == CHOOSE k \in 1..Len(blocks) :
    blocks[k].begin = begin /\ \A h \in 1..(k - 1) : blocks[h].begin # begin

\* Piece.get_missing_blocks / get_requested_blocks, as (Piece, Block) pairs
BlocksWithStatus(ps, st) ==
    LET idx == DOMAIN ps
        OfPiece(i) == SelectSeq([k \in 1..Len(ps[i]) |-> <<PieceObj(i), BlockObj(i, ps[i][k].begin), ps[i][k].status>>],
                                LAMBDA e : e[3] = st)
        Strip(s) == [k \in 1..Len(s) |-> <<s[k][1], s[k][2]>>]
        RECURSIVE Walk(_)
        Walk(i) == IF i \notin idx THEN <<>> ELSE Strip(OfPiece(i)) \o Walk(i + 1)
    IN  Walk(0)

\* ------------------------------------------------------------ enums
\* PeerStatus is a StrEnum: members declared with a value already taken
\* are aliases of the first member with that value.
CHOKING == "choking"
INTERESTED == "interested"
AM_CHOKING == "choking"
AM_INTERESTED == "interested"

\* The queue objects a subscriber hands to the swarm (those of Leecher).
QueueIds == {"_peer_queue", "_peer_message_queue"}

\* ------------------------------------------------------------ messages
\* A message read from the wire.  Every kind carries the same fields so
\* that queues hold comparable values; unused fields are 0 / <<>> / {}.
Msg(kind, index, begin, data, bits, nbytes) ==
    [kind |-> kind, index |-> index, begin |-> begin, data |-> data, bits |-> bits, nbytes |-> nbytes]

ChokeMessage == Msg("choke", 0, 0, <<>>, {}, 0)
UnchokeMessage == Msg("unchoke", 0, 0, <<>>, {}, 0)
HaveMessage(index) == Msg("have", index, 0, <<>>, {}, 0)
BitFieldMessage(bits, nbytes) == Msg("bitfield", 0, 0, <<>>, bits, nbytes)
PieceMessage(index, begin, piece) == Msg("piece", index, begin, piece, {}, 0)
InterestedMessage == Msg("interested", 0, 0, <<>>, {}, 0)
NotInterestedMessage == Msg("not_interested", 0, 0, <<>>, {}, 0)
\* broadcast_peer puts the Peer itself, not a (peer, message) pair
NoMessage == Msg("none", 0, 0, <<>>, {}, 0)

\* ---------------------------------------------------------------- state
VARIABLES
    torrent,                      \* <<piece_length, total_length>> of the metadata
    max_block_requests_per_peer,  \* Leecher / PieceRequester option
    max_block_requests_to_peers,  \* PieceRequester option
    accept_unrequested_blocks,    \* Leecher option
    pieces,                       \* PieceManager.pieces: index -> list of blocks
    missing_blocks,               \* PieceManager.missing_blocks
    requested_blocks,             \* PieceManager.requested_blocks
    bitfield,                     \* PieceManager.bitfield (local), set of set bit positions
    swarm_bitfield,               \* Swarm.bitfield, the object handed to every new Peer
    peers,                        \* Swarm.peers
    writer,                       \* Peer.writer is not None
    handshake,                    \* Peer.handshake is not None
    status,                       \* Peer.status
    peer_bitfield,                \* Peer.bitfield: the shared Swarm.bitfield or an own message
    incoming_block_requests,      \* Peer.incoming_block_requests
    reading,                      \* state of the reader task of each peer
    frames_read,                  \* number of frames the reader loops have read
    answered,                     \* <<peer, piece, block>>: requests in flight a piece frame has answered
    peer_queue,                   \* Leecher._peer_queue
    peer_message_queue,           \* Leecher._peer_message_queue
    connected_task,               \* Leecher._on_peer_connected_task
    message_task,                 \* Leecher._on_peer_message_task: where it is suspended
    lcur,                         \* the piece message the message task is handling
    request_task,                 \* PieceRequester._request_blocks_task: where it is suspended
    it,                           \* index of the list iterator over missing_blocks
    rcur,                         \* (piece, block, peer) of the request sub-task
    disk,                         \* bytes written per piece index by FileHandler.write_piece
    have_sent,                    \* have frames written: set of <<peer, index>>
    pieces_availability_counter,  \* PieceManager.pieces_availability_counter
    peer_keep_alive_timeout_tasks,   \* Swarm._peer_keep_alive_timeout_tasks: peers with an inactivity monitor
    peer_keep_alive_interval_tasks,  \* Swarm._peer_keep_alive_interval_tasks: peers with a keep-alive task
    interested_sent,              \* peers an interested frame was written to
    max_connections,              \* Swarm.max_connections
    connecting,                   \* peers inside connect_peer, past its capacity check
    peer_queues,                  \* Swarm._peer_queues: the registered queue objects
    peer_message_queues,          \* Swarm._peer_message_queues: the registered queue objects
    queue_items,                  \* what was put into each subscriber queue object
    read_log,                     \* per peer: the messages read, each with the queues registered then
    raised,                       \* per peer: what the last call of a session method on it raised
    connects,                     \* per peer: how often Peer.connect has connected the session
    call,                         \* the arguments of a method that is called on its own
    result,                       \* what that method has returned or written
    loop                          \* the asyncio event loop: the per-peer tasks, the ready queue, the futures

vars == << torrent, max_block_requests_per_peer, max_block_requests_to_peers,
           accept_unrequested_blocks, pieces, missing_blocks, requested_blocks,
           bitfield, swarm_bitfield, peers, writer, handshake, status, peer_bitfield,
           incoming_block_requests, reading, frames_read, answered, peer_queue,
           peer_message_queue, connected_task, message_task, lcur, request_task, it, rcur, disk,
           have_sent, pieces_availability_counter, peer_keep_alive_timeout_tasks,
           peer_keep_alive_interval_tasks, interested_sent, max_connections, connecting,
           peer_queues, peer_message_queues, queue_items, read_log, raised, connects, call, result, loop >>

config == << torrent, max_block_requests_per_peer, max_block_requests_to_peers,
             accept_unrequested_blocks >>
manager == << pieces, missing_blocks, requested_blocks, bitfield >>
peerstate == << writer, handshake, status, peer_bitfield, swarm_bitfield >>
\* what only the reader loops change
wire == << frames_read, answered, pieces_availability_counter >>
requester == << request_task, it, rcur >>
leecher == << message_task, lcur, disk, have_sent >>
\* what the callers of the session methods observe
session == << raised, connects >>
\* a method called on its own, outside the running client
pure == << call, result >>
\* per-peer tasks of the swarm and the frames on_peer_connected sends;
\* with the session history, what only few actions change
pertasks == << peer_keep_alive_timeout_tasks, peer_keep_alive_interval_tasks, interested_sent,
               session, pure, loop >>
\* registration and connection state of the Swarm that Leecher.start sets once
api == << max_connections, connecting, peer_queues, peer_message_queues, queue_items, read_log >>

NoPiece == [peer |-> 0, index |-> 0, begin |-> 0, target |-> 0]
NoRequest == [peer |-> 0, index |-> 0, begin |-> 0]
NotWritten == <<"absent">>
NoCall == <<"no call">>
NoResult == <<"no result">>
NoLoop == <<"no loop">>

\* ------------------------------------------------------------ PieceManager
all_pieces_available == \A i \in DOMAIN pieces : all_blocks_available(pieces[i])

has_requested_block(piece, block) == <<piece, block>> \in Range(requested_blocks)

has_missing_block(piece, block) == <<piece, block>> \in Range(missing_blocks)

\* verification that only looks the piece up
verify_piece_unchecked(index, piece) == index + 1 \in DOMAIN PiecesHash(torrent)

verify_piece(index, piece) ==
    /\ index + 1 \in DOMAIN PiecesHash(torrent)
    /\ PiecesHash(torrent)[index + 1] = Sha1(piece)

\* ------------------------------------------------------------ BitField
\* BitField.has_piece (the class of Swarm.bitfield): data[byte] >> (7 - bit) != 0
BitField_has_piece(bits, index) ==
    \E j \in bits : j \div 8 = index \div 8 /\ j % 8 <= index % 8

\* BitFieldMessage.has_piece: data[byte] >> (7 - bit) & 1 != 0
BitFieldMessage_has_piece(bits, index) == index \in bits

PeerBits(p) == IF peer_bitfield[p].shared THEN swarm_bitfield ELSE peer_bitfield[p].bits

peer_has_piece(p, index) ==
    IF peer_bitfield[p].shared
    THEN BitField_has_piece(swarm_bitfield, index)
    ELSE BitFieldMessage_has_piece(peer_bitfield[p].bits, index)

\* ------------------------------------------------------------ Peer / Swarm
is_choking(p) == CHOKING \in status[p]
is_interested(p) == INTERESTED \in status[p]
am_choking(p) == AM_CHOKING \in status[p]
am_interested(p) == AM_INTERESTED \in status[p]

can_accept_more_incoming_block_requests(p) ==
    Len(incoming_block_requests[p]) < MAX_INCOMING_BLOCK_REQUESTS

has_unchoked_peer == \E k \in 1..Len(peers) : ~is_choking(peers[k])

\* Swarm.get_peers with the filters the engine passes: unchoked and
\* can_accept are "None", "True" or "False", has_pieces is <<>> (None) or
\* a list of indexes.  The generator returns after its first yield.
PeerPasses(p, unchoked, can_accept, has_pieces) ==
    /\ unchoked = "True" => ~is_choking(p)
    /\ unchoked = "False" => is_choking(p)
    /\ can_accept = "True" => can_accept_more_incoming_block_requests(p)
    /\ can_accept = "False" => ~can_accept_more_incoming_block_requests(p)
    /\ \A k \in 1..Len(has_pieces) : peer_has_piece(p, has_pieces[k])

get_peers(unchoked, can_accept, has_pieces) ==
    LET passing == SelectSeq(peers, LAMBDA p : PeerPasses(p, unchoked, can_accept, has_pieces))
    IN  IF passing = <<>> THEN <<>> ELSE <<Head(passing)>>

\* ---------------------------------------------------------------- Init
Init ==
    /\ torrent \in Torrents
    /\ max_block_requests_per_peer \in 1..MaxBlockRequestsCfg
    /\ max_block_requests_to_peers = max_block_requests_per_peer
    /\ accept_unrequested_blocks \in BOOLEAN
    /\ pieces = create_pieces(torrent[1], last_piece_length(torrent), total_pieces(torrent),
                              last_piece_index(torrent), FALSE, BlockSize)
    /\ missing_blocks = BlocksWithStatus(pieces, "missing")
    /\ requested_blocks = BlocksWithStatus(pieces, "requested")
    /\ bitfield = { i \in DOMAIN pieces : all_blocks_available(pieces[i]) }
    /\ swarm_bitfield = {}
    /\ peers = <<>>
    /\ writer = [p \in PeerIds |-> FALSE]
    /\ handshake = [p \in PeerIds |-> FALSE]
    /\ status = [p \in PeerIds |-> {CHOKING, AM_CHOKING}]
    /\ peer_bitfield = [p \in PeerIds |-> [shared |-> TRUE, bits |-> {}, nbytes |-> 0]]
    /\ incoming_block_requests = [p \in PeerIds |-> <<>>]
    /\ reading = [p \in PeerIds |-> "none"]
    /\ frames_read = 0
    /\ answered = {}
    /\ peer_queue = <<>>
    /\ peer_message_queue = <<>>
    /\ connected_task = "running"
    /\ message_task = "get"
    /\ lcur = NoPiece
    /\ request_task = "start"
    /\ it = 0
    /\ rcur = NoRequest
    /\ disk = [i \in DOMAIN pieces |-> NotWritten]
    /\ have_sent = {}
    /\ pieces_availability_counter = [i \in DOMAIN pieces |-> 0]
    /\ peer_keep_alive_timeout_tasks = {}
    /\ peer_keep_alive_interval_tasks = {}
    /\ interested_sent = {}
    /\ loop = NoLoop
    /\ max_connections = MAX_CONNECTIONS
    /\ connecting = {}
    /\ peer_queues = <<"_peer_queue">>
    /\ peer_message_queues = <<"_peer_message_queue">>
    /\ queue_items = [q \in QueueIds |-> <<>>]
    /\ read_log = [p \in PeerIds |-> <<>>]
    /\ raised = [p \in PeerIds |-> "none"]
    /\ connects = [p \in PeerIds |-> 0]
    /\ call = NoCall
    /\ result = NoResult

\* The event loop runs one task at a time; a task that never reaches an
\* await keeps every other task from running.
Spinning == request_task = "spin"

\* ------------------------------------------------------------ wire input
GoodPayload(i, begin) ==
    LET whole == TruePiece(torrent, i)
    IN  SubSeq(whole, begin + 1, Min(begin + BlockSize, Len(whole)))

Garbled(data) == IF data = <<>> THEN <<7>> ELSE [data EXCEPT ![1] = 7]

Truncated(data) == IF data = <<>> THEN <<>> ELSE SubSeq(data, 1, Len(data) - 1)

Payloads(i, begin) ==
    { GoodPayload(i, begin), Garbled(GoodPayload(i, begin)), Truncated(GoodPayload(i, begin)) }

ExpectedBitfieldLength == (Cardinality(DOMAIN pieces) + 7) \div 8

WireMessages ==
    {ChokeMessage, UnchokeMessage}
    \cup { HaveMessage(i) : i \in DOMAIN pieces }
    \cup { BitFieldMessage(DOMAIN pieces, ExpectedBitfieldLength) }
    \cup { BitFieldMessage({}, ExpectedBitfieldLength + 1) }
    \cup UNION { UNION { { PieceMessage(i, pieces[i][k].begin, d) : d \in Payloads(i, pieces[i][k].begin) }
                         : k \in 1..Len(pieces[i]) } : i \in DOMAIN pieces }

\* ------------------------------------------------------------ Swarm
\* Swarm.add_peer: connect_peer, append to the peer list, broadcast_peer.
AddPeer(p) ==
    /\ ~Spinning
    /\ p \notin Range(peers)
    /\ \A q \in PeerIds : q < p => (q \in Range(peers) \/ reading[q] # "none")
    /\ ~writer[p]
    /\ reading[p] = "none"
    /\ Len(peers) < MAX_CONNECTIONS
    /\ writer' = [writer EXCEPT ![p] = TRUE]
    /\ peers' = Append(peers, p)
    /\ peer_queue' = Append(peer_queue, p)
    /\ connects' = [connects EXCEPT ![p] = @ + 1]
    /\ UNCHANGED << config, api, peer_keep_alive_timeout_tasks, peer_keep_alive_interval_tasks,
                    interested_sent, pure, loop, raised, wire, manager, handshake, status, peer_bitfield,
                    swarm_bitfield, incoming_block_requests, reading, peer_message_queue,
                    connected_task, requester, leecher >>

\* Swarm.handle_messages: the local effect of one message of peer p.
handle_status(p, m) ==
    CASE m.kind = "choke" -> [status EXCEPT ![p] = @ \cup {CHOKING}]
      [] m.kind = "unchoke" -> [status EXCEPT ![p] = @ \ {CHOKING}]
      [] m.kind = "interested" -> [status EXCEPT ![p] = @ \cup {INTERESTED}]
      [] m.kind = "not_interested" -> [status EXCEPT ![p] = @ \ {INTERESTED}]
      [] OTHER -> status

\* handle_have_message: peer.bitfield.set_piece(index) on the object the
\* peer refers to; an index beyond the byte array is ignored.
handle_have_shared(p, m) ==
    IF m.kind = "have" /\ peer_bitfield[p].shared /\ m.index < 8 * ExpectedBitfieldLength
    THEN swarm_bitfield \cup {m.index}
    ELSE swarm_bitfield

handle_bitfield(p, m) ==
    CASE m.kind = "have" /\ ~peer_bitfield[p].shared /\ m.index < 8 * peer_bitfield[p].nbytes ->
            [peer_bitfield EXCEPT ![p].bits = @ \cup {m.index}]
      [] m.kind = "bitfield" /\ m.nbytes = ExpectedBitfieldLength ->
            [peer_bitfield EXCEPT ![p] = [shared |-> FALSE, bits |-> m.bits, nbytes |-> m.nbytes]]
      [] OTHER -> peer_bitfield

\* Counter.update / counter[index] += 1: a key not yet present starts at 0.
counter_add(counter, keys) ==
    [i \in DOMAIN counter \cup keys |->
        (IF i \in DOMAIN counter THEN counter[i] ELSE 0) + (IF i \in keys THEN 1 ELSE 0)]

\* handle_have_message increments after the try/except, whatever set_piece
\* did; handle_bitfield_message counts every set bit of an accepted message.
handle_counter(m) ==
    CASE m.kind = "have" -> counter_add(pieces_availability_counter, {m.index})
      [] m.kind = "bitfield" /\ m.nbytes = ExpectedBitfieldLength ->
            counter_add(pieces_availability_counter, m.bits)
      [] OTHER -> pieces_availability_counter

\* One turn of Swarm.broadcast_peer_messages: read_message, handle_messages,
\* broadcast_peer_message to the subscriber queue.
ReadFrame(p, m, Frames) ==
    /\ ~Spinning
    /\ reading[p] = "running"
    /\ writer[p]
    /\ Len(peer_message_queue) < MaxQueue
    /\ frames_read < MaxFrames
    /\ m \in Frames
    /\ status' = handle_status(p, m)
    /\ swarm_bitfield' = handle_have_shared(p, m)
    /\ peer_bitfield' = handle_bitfield(p, m)
    /\ peer_message_queue' = Append(peer_message_queue, <<p, m>>)
    /\ frames_read' = frames_read + 1
    /\ pieces_availability_counter' = handle_counter(m)
    /\ answered' = IF /\ m.kind = "piece"
                      /\ <<PieceObj(m.index), BlockObj(m.index, m.begin)>> \in Range(incoming_block_requests[p])
                   THEN answered \cup {<<p, PieceObj(m.index), BlockObj(m.index, m.begin)>>}
                   ELSE answered
    /\ UNCHANGED << config, api, pertasks, manager, peers, writer, handshake, incoming_block_requests,
                    reading, peer_queue, connected_task, requester, leecher >>

ReadMessage(p, m) == ReadFrame(p, m, WireMessages)

\* read_message raised PeerError: remove_peer (disconnect_peer, then
\* peers.remove) and the loop ends.
ReadFail(p) ==
    /\ ~Spinning
    /\ reading[p] = "running"
    /\ writer[p]
    /\ p \in Range(peers)
    /\ writer' = [writer EXCEPT ![p] = FALSE]
    /\ peers' = RemoveFirst(peers, p)
    /\ reading' = [reading EXCEPT ![p] = "done"]
    /\ UNCHANGED << config, api, pertasks, wire, manager, handshake, status, peer_bitfield, swarm_bitfield,
                    incoming_block_requests, peer_queue, peer_message_queue, connected_task,
                    requester, leecher >>

\* parse_message raised UnknownMessageError inside read_message: it is not
\* a PeerError, so it leaves broadcast_peer_messages and the reader task
\* ends with it; nothing else runs.
ReadUnknown(p) ==
    /\ ~Spinning
    /\ reading[p] = "running"
    /\ writer[p]
    /\ frames_read < MaxFrames
    /\ reading' = [reading EXCEPT ![p] = "crashed"]
    /\ frames_read' = frames_read + 1
    /\ UNCHANGED << config, api, pertasks, answered, pieces_availability_counter, manager, peers,
                    peerstate, incoming_block_requests, peer_queue, peer_message_queue,
                    connected_task, requester, leecher >>

\* ------------------------------------------------------------ Leecher
\* One turn of Leecher._on_peer_connected: on_peer_connected(peer).  After a
\* good handshake start_peer_message_reading runs and the next call,
\* swarm.enable_peer_keep_alive_timeout, is not a method of Swarm: the task
\* ends with AttributeError.
OnPeerConnected(ok) ==
    /\ ~Spinning
    /\ connected_task = "running"
    /\ peer_queue # <<>>
    /\ LET p == Head(peer_queue) IN
        /\ writer[p]
        /\ peer_queue' = Tail(peer_queue)
        /\ IF ok
           THEN /\ handshake' = [handshake EXCEPT ![p] = TRUE]
                /\ reading' = [reading EXCEPT ![p] = "running"]
                /\ connected_task' = "dead"
                /\ UNCHANGED writer
           ELSE /\ writer' = [writer EXCEPT ![p] = FALSE]
                /\ UNCHANGED << handshake, reading, connected_task >>
    /\ UNCHANGED << config, api, pertasks, wire, manager, peers, status, peer_bitfield, swarm_bitfield,
                    incoming_block_requests, peer_message_queue, requester, leecher >>

\* ------------------------------------------------------------ PieceRequester
\* The requester runs from one await to the next.  ForNext is the for
\* statement taking the next element of missing_blocks at iterator index
\* k: request_block selects the peers and creates the send task, or finds
\* no peer and goes to its pacing sleep.  WhileCheck is the head of the
\* while loop once the iterator is exhausted.
Suspended(task, k, cur) == [task |-> task, it |-> k, cur |-> cur]

ForNext(k) ==
    LET pb == missing_blocks[k + 1]
        selected == get_peers("True", "True", <<pb[1][2]>>)
    IN  IF selected = <<>>
        THEN Suspended("sleep", k + 1, NoRequest)
        ELSE Suspended("send", k + 1, [peer |-> selected[1], index |-> pb[2][2], begin |-> pb[2][3]])

ForStart ==
    IF missing_blocks = <<>> THEN Suspended("spin", 0, NoRequest) ELSE ForNext(0)

WhileCheck ==
    IF all_pieces_available THEN Suspended("done", it, NoRequest)
    ELSE IF ~has_unchoked_peer THEN Suspended("wait_unchoked", it, NoRequest)
    ELSE ForStart

Resume(r) ==
    /\ request_task' = r.task
    /\ it' = r.it
    /\ rcur' = r.cur

\* request_blocks starts: the while condition and ensure_unchoked_peer.
RequesterStart ==
    /\ request_task = "start"
    /\ Resume(WhileCheck)
    /\ UNCHANGED << config, api, pertasks, wire, manager, peers, peerstate, incoming_block_requests, reading,
                    peer_queue, peer_message_queue, connected_task, leecher >>

\* ensure_unchoked_peer wakes from its one second sleep and finds a peer.
RequesterPoll ==
    /\ request_task = "wait_unchoked"
    /\ has_unchoked_peer
    /\ Resume(ForStart)
    /\ UNCHANGED << config, api, pertasks, wire, manager, peers, peerstate, incoming_block_requests, reading,
                    peer_queue, peer_message_queue, connected_task, leecher >>

\* The pacing sleep of 0.4 s ends: next element of the for loop.
RequesterWake ==
    /\ request_task = "sleep"
    /\ Resume(IF it < Len(missing_blocks) THEN ForNext(it) ELSE WhileCheck)
    /\ UNCHANGED << config, api, pertasks, wire, manager, peers, peerstate, incoming_block_requests, reading,
                    peer_queue, peer_message_queue, connected_task, leecher >>

\* _request_block_from_peer: request_block_from_peer, PeerError swallowed;
\* then gather returns and request_blocks goes to its pacing sleep.
RequestBlockFromPeer(sent) ==
    /\ ~Spinning
    /\ request_task = "send"
    /\ sent => writer[rcur.peer]
    /\ LET piece == PieceObj(rcur.index)
           block == BlockObj(rcur.index, rcur.begin)
       IN  IF ~sent
           THEN /\ request_task' = "sleep"
                /\ UNCHANGED << incoming_block_requests, missing_blocks, requested_blocks >>
           ELSE /\ incoming_block_requests' =
                       [incoming_block_requests EXCEPT ![rcur.peer] = Append(@, <<piece, block>>)]
                /\ IF ~has_missing_block(piece, block)
                   THEN /\ request_task' = "dead"
                        /\ UNCHANGED << missing_blocks, requested_blocks >>
                   ELSE /\ missing_blocks' = RemoveFirst(missing_blocks, <<piece, block>>)
                        /\ IF has_requested_block(piece, block)
                           THEN /\ request_task' = "dead"
                                /\ UNCHANGED requested_blocks
                           ELSE /\ request_task' = "sleep"
                                /\ requested_blocks' = Append(requested_blocks, <<piece, block>>)
    /\ rcur' = NoRequest
    /\ UNCHANGED << config, api, pertasks, wire, pieces, bitfield, peers, peerstate, reading, peer_queue,
                    peer_message_queue, connected_task, leecher, it >>

\* ------------------------------------------------------------ Leecher
StoreBlock(blocks, begin, data) ==
    [blocks EXCEPT ![BlockPos(blocks, begin)] = [@ EXCEPT !.data = data, !.status = "available"]]

\* Leecher.handle_piece_message up to its first await (write_piece) or return.
\* The result names where the task goes and what the manager holds then.
HandlePiece(p, m) ==
    LET requested == has_requested_block(IntObj(m.index), IntObj(m.begin))
        req == IF requested
               THEN RemoveFirst(requested_blocks, <<IntObj(m.index), IntObj(m.begin)>>)
               ELSE requested_blocks
        End(task, how, ps, rq) == [task |-> task, outcome |-> how, pieces |-> ps, requested |-> rq]
    IN  IF ~requested /\ ~accept_unrequested_blocks
        THEN End("get", "rejected", pieces, requested_blocks)
        ELSE IF m.index \notin DOMAIN pieces \/ ~has_block(pieces[m.index], m.begin)
        THEN End("dead", "raised", pieces, req)
        ELSE IF Len(m.data) # pieces[m.index][BlockPos(pieces[m.index], m.begin)].length
        THEN End("get", "bad_length", pieces, req)
        ELSE LET stored == StoreBlock(pieces[m.index], m.begin, m.data)
             IN  IF ~all_blocks_available(stored)
                 THEN End("get", "stored", [pieces EXCEPT ![m.index] = stored], req)
                 ELSE IF ~verify_piece(m.index, m.data)
                 THEN End("get", "hash_failed",
                          [pieces EXCEPT ![m.index] =
                              set_all_blocks_status_as_missing(clear_blocks_data(stored))], req)
                 ELSE End("writing", "verified", [pieces EXCEPT ![m.index] = stored], req)

\* One turn of Leecher.on_peer_message: take a message, handle_message.
HandleMessage ==
    /\ ~Spinning
    /\ message_task = "get"
    /\ peer_message_queue # <<>>
    /\ LET p == Head(peer_message_queue)[1]
           m == Head(peer_message_queue)[2]
       IN  IF m.kind # "piece"
           THEN UNCHANGED << pieces, requested_blocks, message_task, lcur >>
           ELSE LET r == HandlePiece(p, m) IN
                /\ pieces' = r.pieces
                /\ requested_blocks' = r.requested
                /\ message_task' = r.task
                /\ lcur' = IF r.task = "writing"
                           THEN [peer |-> p, index |-> m.index, begin |-> m.begin, target |-> 0]
                           ELSE NoPiece
    /\ peer_message_queue' = Tail(peer_message_queue)
    /\ UNCHANGED << config, api, pertasks, wire, missing_blocks, bitfield, peers, peerstate, incoming_block_requests,
                    reading, peer_queue, connected_task, requester, disk, have_sent >>

\* a failed write that is logged and not re-raised
write_raises_swallowed(ok) == FALSE

\* The except clause around write_piece: a failed write is re-raised as
\* IOError out of handle_piece_message.
write_raises(ok) == ~ok

\* FileHandler.write_piece returns or raises.  The IOError ends the message
\* task.  After a write the block data is cleared, the local bit is set and
\* broadcast_have_piece creates its send task for the peers that
\* get_peers(unchoked=True) yields.
WritePiece(ok) ==
    /\ ~Spinning
    /\ message_task = "writing"
    /\ IF write_raises(ok)
       THEN /\ message_task' = "dead"
            /\ UNCHANGED << pieces, bitfield, disk, lcur >>
       ELSE LET targets == get_peers("True", "None", <<>>) IN
            /\ disk' = IF ok THEN [disk EXCEPT ![lcur.index] = get_blocks_data(pieces[lcur.index])]
                             ELSE disk
            /\ pieces' = [pieces EXCEPT ![lcur.index] = clear_blocks_data(@)]
            /\ bitfield' = bitfield \cup {lcur.index}
            /\ IF targets = <<>>
               THEN /\ message_task' = "get"
                    /\ lcur' = NoPiece
               ELSE /\ message_task' = "broadcast"
                    /\ lcur' = [lcur EXCEPT !.target = targets[1]]
    /\ UNCHANGED << config, api, pertasks, wire, missing_blocks, requested_blocks, peers, peerstate,
                    incoming_block_requests, reading, peer_queue, peer_message_queue,
                    connected_task, requester, have_sent >>

\* The send task of Swarm.broadcast_have_piece: send_have_message, and on
\* PeerError disconnect_peer.  Peer.disconnect raises RuntimeError on a
\* peer that is not connected, which gather hands to the message task.
SendHave(sent) ==
    /\ ~Spinning
    /\ message_task = "broadcast"
    /\ sent => writer[lcur.target]
    /\ IF sent
       THEN /\ have_sent' = have_sent \cup {<<lcur.target, lcur.index>>}
            /\ message_task' = "get"
            /\ UNCHANGED << writer, reading >>
       ELSE /\ reading' = [reading EXCEPT ![lcur.target] = IF @ = "running" THEN "done" ELSE @]
            /\ writer' = [writer EXCEPT ![lcur.target] = FALSE]
            /\ message_task' = IF writer[lcur.target] THEN "get" ELSE "dead"
            /\ UNCHANGED have_sent
    /\ lcur' = NoPiece
    /\ UNCHANGED << config, api, pertasks, wire, manager, peers, handshake, status, peer_bitfield, swarm_bitfield,
                    incoming_block_requests, peer_queue, peer_message_queue, connected_task,
                    requester, disk >>

\* ---------------------------------------------------------------- Next
Next ==
    \/ \E p \in PeerIds : AddPeer(p)
    \/ \E ok \in BOOLEAN : OnPeerConnected(ok)
    \/ \E p \in PeerIds : \E m \in WireMessages : ReadMessage(p, m)
    \/ \E p \in PeerIds : ReadFail(p)
    \/ \E p \in PeerIds : ReadUnknown(p)
    \/ RequesterStart
    \/ RequesterPoll
    \/ RequesterWake
    \/ \E sent \in BOOLEAN : RequestBlockFromPeer(sent)
    \/ HandleMessage
    \/ \E ok \in BOOLEAN : WritePiece(ok)
    \/ \E sent \in BOOLEAN : SendHave(sent)

Spec == Init /\ [][Next]_vars

\* The event loop runs every task that is ready; what the peers send and
\* whether connections are made or fail is up to the environment.
Fairness ==
    /\ WF_vars(\E ok \in BOOLEAN : OnPeerConnected(ok))
    /\ WF_vars(RequesterStart)
    /\ WF_vars(RequesterPoll)
    /\ WF_vars(RequesterWake)
    /\ WF_vars(\E sent \in BOOLEAN : RequestBlockFromPeer(sent))
    /\ WF_vars(HandleMessage)
    /\ WF_vars(\E ok \in BOOLEAN : WritePiece(ok))
    /\ WF_vars(\E sent \in BOOLEAN : SendHave(sent))

FairSpec == Spec /\ Fairness

\* ============================================================ Swarm API
\* The Swarm and its Peers driven through their methods by any subscriber:
\* queues are registered and removed, addresses are connected concurrently
\* (add_peers), readers are started, frames of every kind arrive and the
\* local side sets its own choke / interest flags.  The Leecher tasks are
\* not started here.
engine == << max_block_requests_per_peer, max_block_requests_to_peers, accept_unrequested_blocks,
             missing_blocks, requested_blocks, bitfield, handshake, incoming_block_requests,
             answered, peer_queue, peer_message_queue, connected_task, message_task, lcur,
             request_task, it, rcur, disk, have_sent, pertasks >>

\* A constructed Swarm with its PieceManager, nothing started.
Quiescent ==
    /\ torrent = <<BlockSize, 2 * BlockSize>>
    /\ max_block_requests_per_peer = 1
    /\ max_block_requests_to_peers = 1
    /\ accept_unrequested_blocks = TRUE
    /\ pieces = create_pieces(torrent[1], last_piece_length(torrent), total_pieces(torrent),
                              last_piece_index(torrent), FALSE, BlockSize)
    /\ missing_blocks = BlocksWithStatus(pieces, "missing")
    /\ requested_blocks = BlocksWithStatus(pieces, "requested")
    /\ bitfield = { i \in DOMAIN pieces : all_blocks_available(pieces[i]) }
    /\ swarm_bitfield = {}
    /\ peers = <<>>
    /\ writer = [p \in PeerIds |-> FALSE]
    /\ handshake = [p \in PeerIds |-> FALSE]
    /\ status = [p \in PeerIds |-> {CHOKING, AM_CHOKING}]
    /\ peer_bitfield = [p \in PeerIds |-> [shared |-> TRUE, bits |-> {}, nbytes |-> 0]]
    /\ incoming_block_requests = [p \in PeerIds |-> <<>>]
    /\ reading = [p \in PeerIds |-> "none"]
    /\ frames_read = 0
    /\ answered = {}
    /\ peer_queue = <<>>
    /\ peer_message_queue = <<>>
    /\ connected_task = "none"
    /\ message_task = "none"
    /\ lcur = NoPiece
    /\ request_task = "none"
    /\ it = 0
    /\ rcur = NoRequest
    /\ disk = [i \in DOMAIN pieces |-> NotWritten]
    /\ have_sent = {}
    /\ pieces_availability_counter = [i \in DOMAIN pieces |-> 0]
    /\ peer_keep_alive_timeout_tasks = {}
    /\ peer_keep_alive_interval_tasks = {}
    /\ interested_sent = {}
    /\ loop = NoLoop
    /\ connecting = {}
    /\ peer_queues = <<>>
    /\ peer_message_queues = <<>>
    /\ queue_items = [q \in QueueIds |-> <<>>]
    /\ read_log = [p \in PeerIds |-> <<>>]
    /\ raised = [p \in PeerIds |-> "none"]
    /\ connects = [p \in PeerIds |-> 0]

SwarmInit ==
    /\ Quiescent
    /\ max_connections \in 1..MaxConnectionsCfg
    /\ call = NoCall
    /\ result = NoResult

\* Swarm.add_peer_queue: a queue already registered raises ValueError.
add_peer_queue(q) ==
    /\ q \notin Range(peer_queues)
    /\ Len(peer_queues) < MaxRegistrations
    /\ peer_queues' = Append(peer_queues, q)
    /\ UNCHANGED << torrent, engine, pieces, pieces_availability_counter, frames_read, peers,
                    peerstate, reading, max_connections, connecting, peer_message_queues,
                    queue_items, read_log >>

\* Swarm.add_peer_message_queue: the membership test reads _peer_queues.
add_peer_message_queue(q) ==
    /\ q \notin Range(peer_queues)
    /\ Len(peer_message_queues) < MaxRegistrations
    /\ peer_message_queues' = Append(peer_message_queues, q)
    /\ UNCHANGED << torrent, engine, pieces, pieces_availability_counter, frames_read, peers,
                    peerstate, reading, max_connections, connecting, peer_queues,
                    queue_items, read_log >>

\* queue.put(item) for every entry of a registration list
PutAll(registered, item) ==
    [q \in QueueIds |->
        queue_items[q] \o [k \in 1..Cardinality({j \in 1..Len(registered) : registered[j] = q}) |-> item]]

\* Swarm.connect_peer up to `await peer.connect()`: the capacity check and
\* the Peer object, a session that has not been connected before; one call
\* per address of add_peers, which starts them in the order of the address
\* list.
connect_peer(p) ==
    /\ \A q \in PeerIds : q < p => (q \in connecting \/ writer[q] \/ reading[q] # "none")
    /\ p \notin connecting
    /\ p \notin Range(peers)
    /\ ~writer[p]
    /\ connects[p] = 0
    /\ reading[p] = "none"
    /\ Len(peers) < max_connections
    /\ connecting' = connecting \cup {p}
    /\ UNCHANGED << torrent, engine, pieces, pieces_availability_counter, frames_read, peers,
                    peerstate, reading, max_connections, peer_queues, peer_message_queues,
                    queue_items, read_log >>

\* peer.connect() returns or raises PeerError; Swarm.add_peer then appends
\* the peer and broadcast_peer puts it into every registered peer queue.
add_peer(p, ok) ==
    /\ p \in connecting
    /\ connecting' = connecting \ {p}
    /\ IF ok
       THEN /\ writer' = [writer EXCEPT ![p] = TRUE]
            /\ peers' = Append(peers, p)
            /\ queue_items' = PutAll(peer_queues, <<p, NoMessage>>)
            /\ connects' = [connects EXCEPT ![p] = @ + 1]
       ELSE UNCHANGED << writer, peers, queue_items, connects >>
    /\ UNCHANGED << config, manager, wire, requester, message_task, lcur, disk, have_sent,
                    peer_keep_alive_timeout_tasks, peer_keep_alive_interval_tasks, interested_sent, pure, loop,
                    raised, handshake, status, peer_bitfield, swarm_bitfield,
                    incoming_block_requests, reading, peer_queue, peer_message_queue,
                    connected_task, max_connections, peer_queues, peer_message_queues, read_log >>

\* Wire input of the API specification: every kind of frame handle_messages
\* matches, have with an index in range, in the spare bits and beyond the
\* bitfield, and one piece frame.
SwarmWireMessages ==
    {ChokeMessage, UnchokeMessage, InterestedMessage, NotInterestedMessage}
    \cup { HaveMessage(i) : i \in {0, Cardinality(DOMAIN pieces), 8 * ExpectedBitfieldLength} }
    \cup { BitFieldMessage(DOMAIN pieces, ExpectedBitfieldLength) }
    \cup { PieceMessage(0, 0, GoodPayload(0, 0)) }

\* Swarm.start_peer_message_reading: KeyError when the peer has a reader.
start_peer_message_reading(p) ==
    /\ p \in Range(peers)
    /\ reading[p] = "none"
    /\ reading' = [reading EXCEPT ![p] = "running"]
    /\ UNCHANGED << torrent, engine, pieces, pieces_availability_counter, frames_read, peers,
                    peerstate, api >>

\* One turn of Swarm.broadcast_peer_messages with any number of registered
\* queues: read_message, handle_messages, broadcast_peer_message.
broadcast_peer_messages(p, m) ==
    /\ reading[p] = "running"
    /\ writer[p]
    /\ frames_read < MaxSwarmFrames
    /\ m \in SwarmWireMessages
    /\ status' = handle_status(p, m)
    /\ swarm_bitfield' = handle_have_shared(p, m)
    /\ peer_bitfield' = handle_bitfield(p, m)
    /\ pieces_availability_counter' = handle_counter(m)
    /\ queue_items' = PutAll(peer_message_queues, <<p, m>>)
    /\ read_log' = [read_log EXCEPT ![p] = Append(@, [message |-> m, queues |-> Range(peer_message_queues)])]
    /\ frames_read' = frames_read + 1
    /\ UNCHANGED << torrent, engine, pieces, peers, writer, reading, max_connections,
                    connecting, peer_queues, peer_message_queues >>

\* Peer.am_choking / Peer.am_interested setters.
set_status(p, member, value) ==
    /\ p \in Range(peers)
    /\ status' = [status EXCEPT ![p] = IF value THEN @ \cup {member} ELSE @ \ {member}]
    /\ status' # status
    /\ UNCHANGED << torrent, engine, pieces, pieces_availability_counter, frames_read, peers,
                    writer, peer_bitfield, swarm_bitfield, reading, api >>

set_am_choking(p, value) == set_status(p, AM_CHOKING, value)

set_am_interested(p, value) == set_status(p, AM_INTERESTED, value)

SwarmNext ==
    \/ \E q \in QueueIds : add_peer_queue(q)
    \/ \E q \in QueueIds : add_peer_message_queue(q)
    \/ \E p \in PeerIds : connect_peer(p)
    \/ \E p \in PeerIds : \E ok \in BOOLEAN : add_peer(p, ok)
    \/ \E p \in PeerIds : start_peer_message_reading(p)
    \/ \E p \in PeerIds : \E m \in SwarmWireMessages : broadcast_peer_messages(p, m)

SwarmSpec == SwarmInit /\ [][SwarmNext]_vars

\* ------------------------------------------------------------ Peer status
\* The status properties of Peer under received frames and the local
\* setters, with no subscriber registered.
\* Swarm.broadcast_have_piece(index) with send_already_have_piece = True:
\* one send task per peer that get_peers(unchoked=True) yields; the send
\* succeeds, or raises PeerError and disconnect_peer closes the peer.
broadcast_have_piece(index, sent) ==
    LET targets == get_peers("True", "None", <<>>) IN
    /\ index \in DOMAIN pieces
    /\ targets # <<>>
    /\ sent => writer[targets[1]]
    /\ IF sent
       THEN /\ have_sent' = have_sent \cup {<<targets[1], index>>}
            /\ UNCHANGED << writer, reading >>
       ELSE /\ reading' = [reading EXCEPT ![targets[1]] = IF @ = "running" THEN "done" ELSE @]
            /\ writer' = [writer EXCEPT ![targets[1]] = FALSE]
            /\ UNCHANGED have_sent
    /\ UNCHANGED << config, manager, wire, requester, message_task, lcur, disk, pertasks, api,
                    peers, handshake, status, peer_bitfield, swarm_bitfield,
                    incoming_block_requests, peer_queue, peer_message_queue, connected_task >>

PeerNext ==
    \/ \E p \in PeerIds : connect_peer(p)
    \/ \E p \in PeerIds : \E ok \in BOOLEAN : add_peer(p, ok)
    \/ \E p \in PeerIds : start_peer_message_reading(p)
    \/ \E p \in PeerIds : \E m \in SwarmWireMessages : broadcast_peer_messages(p, m)
    \/ \E p \in PeerIds : \E value \in BOOLEAN : set_am_choking(p, value)
    \/ \E p \in PeerIds : \E value \in BOOLEAN : set_am_interested(p, value)

PeerSpec == SwarmInit /\ [][PeerNext]_vars

\* -------------------------------------------------------- Broadcast-have
\* Swarm.broadcast_have_piece called by a subscriber while the readers of
\* the connected peers receive frames.
HaveNext ==
    \/ \E p \in PeerIds : connect_peer(p)
    \/ \E p \in PeerIds : \E ok \in BOOLEAN : add_peer(p, ok)
    \/ \E p \in PeerIds : start_peer_message_reading(p)
    \/ \E p \in PeerIds : \E m \in SwarmWireMessages : broadcast_peer_messages(p, m)
    \/ \E index \in DOMAIN pieces : \E sent \in BOOLEAN : broadcast_have_piece(index, sent)

HaveSpec == SwarmInit /\ [][HaveNext]_vars

\* ------------------------------------------------------------ Sessions
\* The connection methods of Peer and of Swarm called on sessions in any
\* order, each call returning or raising; `raised` keeps what the last
\* call on the session raised.
Raise(p, exc) == raised' = [raised EXCEPT ![p] = exc]

\* Peer.connect: RuntimeError on a connected session, PeerError when the
\* connection cannot be opened.
connect(p, ok) ==
    /\ p \notin connecting
    /\ (~writer[p] /\ ok) => connects[p] < MaxConnects
    /\ IF writer[p]
       THEN Raise(p, "RuntimeError") /\ UNCHANGED << writer, connects >>
       ELSE IF ok
       THEN /\ writer' = [writer EXCEPT ![p] = TRUE]
            /\ connects' = [connects EXCEPT ![p] = @ + 1]
            /\ Raise(p, "none")
       ELSE Raise(p, "PeerError") /\ UNCHANGED << writer, connects >>
    /\ UNCHANGED << config, manager, wire, requester, leecher, api, peer_keep_alive_timeout_tasks,
                    peer_keep_alive_interval_tasks, interested_sent, pure, loop, peers, handshake, status,
                    peer_bitfield, swarm_bitfield, incoming_block_requests, reading, peer_queue,
                    peer_message_queue, connected_task >>

\* Peer.disconnect: _check_connected raises RuntimeError on a session
\* without a writer; a failing close is PeerError and keeps the writer.
disconnect(p, ok) ==
    /\ IF ~writer[p]
       THEN Raise(p, "RuntimeError") /\ UNCHANGED writer
       ELSE IF ok
       THEN writer' = [writer EXCEPT ![p] = FALSE] /\ Raise(p, "none")
       ELSE Raise(p, "PeerError") /\ UNCHANGED writer
    /\ UNCHANGED << config, manager, wire, requester, leecher, api, peer_keep_alive_timeout_tasks,
                    peer_keep_alive_interval_tasks, interested_sent, pure, loop, connects, peers, handshake,
                    status, peer_bitfield, swarm_bitfield, incoming_block_requests, reading,
                    peer_queue, peer_message_queue, connected_task >>

\* Peer.do_handshake: RuntimeError without a connection, PeerError when the
\* exchange fails, else self.handshake is set.
do_handshake(p, ok) ==
    /\ IF ~writer[p]
       THEN Raise(p, "RuntimeError") /\ UNCHANGED handshake
       ELSE IF ok
       THEN handshake' = [handshake EXCEPT ![p] = TRUE] /\ Raise(p, "none")
       ELSE Raise(p, "PeerError") /\ UNCHANGED handshake
    /\ UNCHANGED << config, manager, wire, requester, leecher, api, peer_keep_alive_timeout_tasks,
                    peer_keep_alive_interval_tasks, interested_sent, pure, loop, connects, peers, writer,
                    status, peer_bitfield, swarm_bitfield, incoming_block_requests, reading,
                    peer_queue, peer_message_queue, connected_task >>

\* Swarm.disconnect_peer: the tasks of the peer are stopped, then
\* peer.disconnect().
disconnect_peer(p, ok) ==
    /\ p \in Range(peers)
    /\ reading' = [reading EXCEPT ![p] = IF @ = "running" THEN "done" ELSE @]
    /\ peer_keep_alive_timeout_tasks' = peer_keep_alive_timeout_tasks \ {p}
    /\ peer_keep_alive_interval_tasks' = peer_keep_alive_interval_tasks \ {p}
    /\ IF ~writer[p]
       THEN Raise(p, "RuntimeError") /\ UNCHANGED writer
       ELSE IF ok
       THEN writer' = [writer EXCEPT ![p] = FALSE] /\ Raise(p, "none")
       ELSE Raise(p, "PeerError") /\ UNCHANGED writer
    /\ UNCHANGED << config, manager, wire, requester, leecher, api, interested_sent, pure, loop, connects,
                    peers, handshake, status, peer_bitfield, swarm_bitfield,
                    incoming_block_requests, peer_queue, peer_message_queue, connected_task >>

\* Swarm.remove_peer: KeyError for a peer that is not in the list; else
\* disconnect_peer with every exception swallowed, and peers.remove.
remove_peer(p, ok) ==
    /\ IF p \notin Range(peers)
       THEN Raise(p, "KeyError") /\ UNCHANGED << peers, writer, reading, peer_keep_alive_timeout_tasks,
                                                 peer_keep_alive_interval_tasks >>
       ELSE /\ reading' = [reading EXCEPT ![p] = IF @ = "running" THEN "done" ELSE @]
            /\ peer_keep_alive_timeout_tasks' = peer_keep_alive_timeout_tasks \ {p}
            /\ peer_keep_alive_interval_tasks' = peer_keep_alive_interval_tasks \ {p}
            /\ writer' = [writer EXCEPT ![p] = IF ok THEN FALSE ELSE @]
            /\ peers' = RemoveFirst(peers, p)
            /\ Raise(p, "none")
    /\ UNCHANGED << config, manager, wire, requester, leecher, api, interested_sent, pure, loop, connects,
                    handshake, status, peer_bitfield, swarm_bitfield, incoming_block_requests,
                    peer_queue, peer_message_queue, connected_task >>

SessionNext ==
    \/ \E p \in PeerIds : connect_peer(p)
    \/ \E p \in PeerIds : \E ok \in BOOLEAN : add_peer(p, ok)
    \/ \E p \in PeerIds : \E ok \in BOOLEAN : connect(p, ok)
    \/ \E p \in PeerIds : \E ok \in BOOLEAN : disconnect(p, ok)
    \/ \E p \in PeerIds : \E ok \in BOOLEAN : do_handshake(p, ok)
    \/ \E p \in PeerIds : \E ok \in BOOLEAN : disconnect_peer(p, ok)
    \/ \E p \in PeerIds : \E ok \in BOOLEAN : remove_peer(p, ok)

SessionSpec == SwarmInit /\ [][SessionNext]_vars

\* ================================================================ claims
Pair(i, begin) == <<PieceObj(i), BlockObj(i, begin)>>

\* every (piece, block) pair of every torrent of the model
PairUniverse ==
    UNION { { Pair(i, (k - 1) * BlockSize) :
                i \in 0..(total_pieces(t) - 1), k \in 1..(t[1] \div BlockSize) } : t \in Torrents }

\* requests sent to p that no piece frame of p has answered
InFlight(p) == { pb \in Range(incoming_block_requests[p]) : <<p, pb[1], pb[2]>> \notin answered }

RECURSIVE SumOver(_, _)
SumOver(f, S) == IF S = {} THEN 0
                 ELSE LET x == CHOOSE y \in S : TRUE IN f[x] + SumOver(f, S \ {x})

\* The step in which handle_piece_message returns for piece(i, begin) of peer p.
PieceHandled(p, i, begin) ==
    \/ /\ message_task = "get"
       /\ peer_message_queue # <<>>
       /\ Head(peer_message_queue)[1] = p
       /\ Head(peer_message_queue)[2].kind = "piece"
       /\ Head(peer_message_queue)[2].index = i
       /\ Head(peer_message_queue)[2].begin = begin
       /\ peer_message_queue' = Tail(peer_message_queue)
       /\ message_task' = "get"
    \/ /\ message_task \in {"writing", "broadcast"}
       /\ lcur.peer = p /\ lcur.index = i /\ lcur.begin = begin
       /\ message_task' = "get"

\* C1: in every reachable state each block is in missing_blocks iff its
\* status is MISSING, in requested_blocks iff its status is REQUESTED, in
\* neither list iff its status is AVAILABLE, and never in both lists.
C1_IndexesAgreeWithStatus ==
    \A i \in DOMAIN pieces : \A k \in 1..Len(pieces[i]) :
        LET pb == Pair(i, pieces[i][k].begin)
            st == pieces[i][k].status
        IN  /\ st \in {"missing", "requested", "available"}
            /\ (pb \in Range(missing_blocks)) <=> (st = "missing")
            /\ (pb \in Range(requested_blocks)) <=> (st = "requested")
            /\ (pb \notin Range(missing_blocks) /\ pb \notin Range(requested_blocks)) <=> (st = "available")
            /\ ~(pb \in Range(missing_blocks) /\ pb \in Range(requested_blocks))

\* C2: a piece is written to disk and announced only if the SHA-1 of its
\* assembled data equals its entry of pieces_hash: the data handed to
\* write_piece, the data on disk and every have sent belong to a piece
\* whose assembled bytes match.
C2_WriteOnlyIfHashMatches ==
    /\ message_task = "writing" =>
          Sha1(get_blocks_data(pieces[lcur.index])) = PiecesHash(torrent)[lcur.index + 1]
    /\ \A i \in DOMAIN disk :
          disk[i] # NotWritten => Sha1(disk[i]) = PiecesHash(torrent)[i + 1]
    /\ \A h \in have_sent :
          /\ disk[h[2]] # NotWritten
          /\ Sha1(disk[h[2]]) = PiecesHash(torrent)[h[2] + 1]

\* C2 witness: a piece went through verification and is on disk, after a
\* frame with a wrong payload was also read.
C2_Witness ==
    /\ \E i \in DOMAIN disk : disk[i] = TruePiece(torrent, i)
    /\ frames_read > 1
    /\ message_task = "get"

\* C3: for every piece index i the local bitfield has bit i set iff all
\* blocks of piece i are AVAILABLE and the piece passed verification (a
\* piece whose blocks are all AVAILABLE has passed it; the state between
\* verification and the end of the write is the commit in progress).
C3_BitfieldIffAvailable ==
    \A i \in DOMAIN pieces :
        ~(message_task = "writing" /\ lcur.index = i) =>
            ((i \in bitfield) <=> all_blocks_available(pieces[i]))

C5_CorrectPieceVerifies ==
    [][ \A p \in PeerIds :
          ( /\ message_task = "get"
            /\ peer_message_queue # <<>>
            /\ Head(peer_message_queue)[1] = p
            /\ Head(peer_message_queue)[2].kind = "piece"
            /\ peer_message_queue' = Tail(peer_message_queue)
            /\ LET m == Head(peer_message_queue)[2]
               IN  /\ HandlePiece(p, m).outcome \in {"verified", "hash_failed"}
                   /\ get_blocks_data(StoreBlock(pieces[m.index], m.begin, m.data))
                        = TruePiece(torrent, m.index) )
          => ( /\ message_task' = "writing"
               /\ lcur'.index = Head(peer_message_queue)[2].index ) ]_vars

\* C6: when the last block of a piece arrives and verification fails, then
\* after the handler returns every block of the piece has empty data and
\* status MISSING, is not in requested_blocks and is in missing_blocks.
C6_HashFailureResetsPiece ==
    [][ \A p \in PeerIds :
          ( /\ message_task = "get"
            /\ peer_message_queue # <<>>
            /\ Head(peer_message_queue)[1] = p
            /\ Head(peer_message_queue)[2].kind = "piece"
            /\ peer_message_queue' = Tail(peer_message_queue)
            /\ HandlePiece(p, Head(peer_message_queue)[2]).outcome = "hash_failed" )
          => LET i == Head(peer_message_queue)[2].index
             IN  \A k \in 1..Len(pieces'[i]) :
                    /\ pieces'[i][k].data = <<>>
                    /\ pieces'[i][k].status = "missing"
                    /\ Pair(i, pieces'[i][k].begin) \notin Range(requested_blocks')
                    /\ Pair(i, pieces'[i][k].begin) \in Range(missing_blocks') ]_vars

\* C7: for every peer the number of block requests in flight to it is at
\* most the configured max_block_requests_per_peer.
C7_PerPeerCap ==
    \A p \in PeerIds : Cardinality(InFlight(p)) <= max_block_requests_per_peer

\* C8: the total number of block requests in flight across all peers is at
\* most the configured max_block_requests_to_peers.
C8_GlobalCap ==
    SumOver([p \in PeerIds |-> Cardinality(InFlight(p))], PeerIds) <= max_block_requests_to_peers

\* C9: a block requested from a peer for which no piece frame arrives
\* eventually is back in missing_blocks and gone from the peer's in-flight
\* list.
C9_TimeoutReverts ==
    \A p \in PeerIds : \A pb \in PairUniverse :
        (pb \in Range(incoming_block_requests[p]) /\ <<p, pb[1], pb[2]>> \notin answered)
            ~> ( \/ <<p, pb[1], pb[2]>> \in answered
                 \/ (pb \in Range(missing_blocks) /\ pb \notin Range(incoming_block_requests[p])) )

\* C10: after piece(index, begin) of peer p has been handled, the pair is
\* neither in p's in-flight list nor in requested_blocks.
C10_HandledPieceLeavesInFlight ==
    [][ \A p \in PeerIds : \A pb \in PairUniverse :
          PieceHandled(p, pb[1][2], pb[2][3])
          => ( /\ pb \notin Range(incoming_block_requests'[p])
               /\ pb \notin Range(requested_blocks') ) ]_vars

\* The step in which the message task takes piece message m of peer p from
\* its queue and runs handle_piece_message to its first await or return.
TakesPiece(p) ==
    /\ message_task = "get"
    /\ peer_message_queue # <<>>
    /\ Head(peer_message_queue)[1] = p
    /\ Head(peer_message_queue)[2].kind = "piece"
    /\ peer_message_queue' = Tail(peer_message_queue)

\* C11: with accept_unrequested_blocks = false, a piece message with the
\* block's bytes for a block requested from that peer and still in its
\* in-flight list is accepted (the block becomes AVAILABLE, the in-flight
\* entry is removed), and a piece message for a block never requested from
\* the peer leaves every block's status and data unchanged.
C11_RequestedAcceptedUnrequestedDropped ==
    [][ \A p \in PeerIds :
          (TakesPiece(p) /\ ~accept_unrequested_blocks)
          => LET m == Head(peer_message_queue)[2]
                 pb == Pair(m.index, m.begin)
                 k == BlockPos(pieces[m.index], m.begin)
             IN  IF pb \in Range(incoming_block_requests[p])
                 THEN (m.data = GoodPayload(m.index, m.begin) /\ pieces[m.index][k].status = "missing")
                      => ( /\ pieces'[m.index][k].status = "available"
                           /\ pb \notin Range(incoming_block_requests'[p]) )
                 ELSE pieces' = pieces ]_vars

\* C12: a piece message for a block whose status is not MISSING is
\* dropped: no block changes status or data, the piece is not handed to
\* the disk again and no have is broadcast.
C12_NotMissingBlockDropped ==
    [][ \A p \in PeerIds :
          ( /\ TakesPiece(p)
            /\ LET m == Head(peer_message_queue)[2]
               IN  pieces[m.index][BlockPos(pieces[m.index], m.begin)].status # "missing" )
          => ( /\ pieces' = pieces
               /\ message_task' = "get"
               /\ disk' = disk
               /\ have_sent' = have_sent ) ]_vars

\* the messages of peer p that were put into subscriber queue q, in the
\* order of the puts
Delivered(q, p) ==
    LET OfPeer(item) == item[1] = p /\ item[2] # NoMessage
        items == SelectSeq(queue_items[q], OfPeer)
    IN  [k \in 1..Len(items) |-> items[k][2]]

\* the messages read from peer p while q was a registered subscriber, in
\* read order
ReadWhileRegistered(q, p) ==
    LET Registered(entry) == q \in entry.queues
        entries == SelectSeq(read_log[p], Registered)
    IN  [k \in 1..Len(entries) |-> entries[k].message]

\* C13: for every peer and every subscriber queue, the messages of that
\* peer are enqueued in the order they were read from the wire, and each
\* message is enqueued exactly once to every subscriber registered at the
\* time it was read.
C13_PerPeerOrderExactlyOnce ==
    \A q \in QueueIds : \A p \in PeerIds : Delivered(q, p) = ReadWhileRegistered(q, p)

\* C14: the peer set never holds more than max_connections peers, also
\* when several add_peers connection attempts run concurrently.
C14_PeerSetWithinMaxConnections == Len(peers) <= max_connections

\* C15: when a session of peer p fails (handshake failure, failed frame
\* read, failed have send), p is no longer in the swarm's peer list and its
\* reader is stopped, every other peer keeps its membership, its connection
\* and its reader, and every peer left in the list is connected.
C15_FailureRemovesOnlyThatPeer ==
    [][ \A p \in PeerIds :
          (writer[p] /\ ~writer'[p])
          => ( /\ p \notin Range(peers')
               /\ reading'[p] # "running"
               /\ \A q \in PeerIds \ {p} :
                     /\ (q \in Range(peers')) <=> (q \in Range(peers))
                     /\ writer'[q] = writer[q]
                     /\ reading'[q] = reading[q]
               /\ \A q \in Range(peers') : writer'[q] ) ]_vars

\* C16: a frame with an unknown message id fails the session of that peer:
\* the peer is closed and removed from the peer list, and no other peer
\* changes its membership, connection or reader; the reader loop does not
\* end with the peer still connected and listed.
C16_UnknownMessageRemovesPeer ==
    [][ \A p \in PeerIds :
          ReadUnknown(p)
          => ( /\ ~writer'[p]
               /\ p \notin Range(peers')
               /\ \A q \in PeerIds \ {p} :
                     /\ (q \in Range(peers')) <=> (q \in Range(peers))
                     /\ writer'[q] = writer[q]
                     /\ reading'[q] = reading[q] ) ]_vars

\* C17: after the disk write of a verified piece i fails, the message task
\* is alive, waiting for the next message, and bit i of the local bitfield
\* is as unset as it was.
C17_WriteFailureKeepsEngineRunning ==
    [][ WritePiece(FALSE)
          => ( /\ message_task' = "get"
               /\ (lcur.index \notin bitfield => lcur.index \notin bitfield') ) ]_vars

\* C18: for every peer whose handshake succeeds the leecher starts the
\* reader loop, the keep-alive task and the inactivity monitor and sends
\* interested, and the task serving peer-connected events stays alive.
C18_GoodHandshakeStartsTasks ==
    [][ \A p \in PeerIds :
          (~handshake[p] /\ handshake'[p])
          => ( /\ reading'[p] = "running"
               /\ p \in peer_keep_alive_interval_tasks'
               /\ p \in peer_keep_alive_timeout_tasks'
               /\ p \in interested_sent'
               /\ connected_task' = "running" ) ]_vars

\* the four status properties of a Peer as read through its accessors
StatusView(s) ==
    [they_choking |-> CHOKING \in s, they_interested |-> INTERESTED \in s,
     we_choking |-> AM_CHOKING \in s, we_interested |-> AM_INTERESTED \in s]

\* the frame broadcast_peer_messages read from p in this step, or NoMessage
FrameRead(p) ==
    IF Len(read_log'[p]) = Len(read_log[p]) + 1
    THEN read_log'[p][Len(read_log'[p])].message
    ELSE NoMessage

\* C19: a peer starts with THEY_CHOKING and WE_CHOKING set and both
\* interested statuses clear, and the four statuses are independent: a
\* choke or unchoke frame changes only THEY_CHOKING, an interested or
\* not-interested frame changes only THEY_INTERESTED, and setting
\* WE_CHOKING or WE_INTERESTED leaves both THEY_ statuses unchanged.
C19_StatusesIndependent ==
    [][ \A p \in PeerIds :
          LET old == StatusView(status[p])
              new == StatusView(status'[p])
          IN  /\ (p \notin Range(peers) /\ p \in Range(peers'))
                 => new = [they_choking |-> TRUE, they_interested |-> FALSE,
                           we_choking |-> TRUE, we_interested |-> FALSE]
              /\ FrameRead(p).kind \in {"choke", "unchoke"}
                 => new = [old EXCEPT !.they_choking = (FrameRead(p).kind = "choke")]
              /\ FrameRead(p).kind \in {"interested", "not_interested"}
                 => new = [old EXCEPT !.they_interested = (FrameRead(p).kind = "interested")]
              /\ (\E value \in BOOLEAN : set_am_choking(p, value) \/ set_am_interested(p, value))
                 => ( /\ new.they_choking = old.they_choking
                      /\ new.they_interested = old.they_interested ) ]_vars

\* C20: a have(i) with i in [0, total_pieces) sets bit i of that peer's
\* bitfield and raises pieces_availability_counter[i] by one; a have(i)
\* with i outside that range changes no bitfield and gives the counter no
\* new entry and no new count.
C20_HaveInRangeCountsOutOfRangeIgnored ==
    [][ \A p \in PeerIds :
          FrameRead(p).kind = "have"
          => LET i == FrameRead(p).index
             IN  IF i \in 0..(total_pieces(torrent) - 1)
                 THEN /\ PeerBits(p)' = PeerBits(p) \cup {i}
                      /\ pieces_availability_counter'[i] = pieces_availability_counter[i] + 1
                 ELSE /\ swarm_bitfield' = swarm_bitfield
                      /\ peer_bitfield' = peer_bitfield
                      /\ pieces_availability_counter' = pieces_availability_counter ]_vars

\* PieceManager(sort_by_rarity=True), the default the client constructs it with
sort_by_rarity == TRUE

\* C21: with sort_by_rarity enabled, in every reachable state
\* missing_blocks is in nondecreasing order of
\* pieces_availability_counter[piece index].
C21_MissingBlocksSortedByRarity ==
    sort_by_rarity =>
        \A j \in 1..Len(missing_blocks) : \A k \in 1..Len(missing_blocks) :
            j < k => pieces_availability_counter[missing_blocks[j][1][2]]
                        <= pieces_availability_counter[missing_blocks[k][1][2]]

\* the filter values of a get_peers call: None, True or False
Tristate == {"None", "True", "False"}

\* C22: for every swarm state and every combination of filters, get_peers
\* yields exactly the peers of the peer list that pass all supplied
\* filters, each once, in peer-list order.
C22_GetPeersYieldsEveryMatch ==
    \A unchoked \in Tristate : \A can_accept \in Tristate :
        \A has_pieces \in {<<>>} \cup { <<i>> : i \in DOMAIN pieces } :
            get_peers(unchoked, can_accept, has_pieces)
                = SelectSeq(peers, LAMBDA p : PeerPasses(p, unchoked, can_accept, has_pieces))

\* C23: on completing piece i, have(i) is sent to every connected peer of
\* the swarm that is not choking us: after broadcast_have_piece(i) each
\* such peer has been sent have(i) or, its send having failed, is closed.
C23_HaveSentToEveryUnchokedPeer ==
    [][ \A index \in DOMAIN pieces :
          (\E sent \in BOOLEAN : broadcast_have_piece(index, sent))
          => \A q \in Range(peers) :
                (writer[q] /\ ~is_choking(q)) => (<<q, index>> \in have_sent' \/ ~writer'[q]) ]_vars

\* request frames dispatched so far (no entry of an in-flight list is ever
\* taken back)
RequestsDispatched == SumOver([p \in PeerIds |-> Len(incoming_block_requests[p])], PeerIds)

\* a connected, unchoked peer with capacity that advertises a piece of
\* which a block is still MISSING
EligiblePeerPresent ==
    \E p \in Range(peers) :
        /\ writer[p]
        /\ ~is_choking(p)
        /\ can_accept_more_incoming_block_requests(p)
        /\ \E i \in DOMAIN pieces :
              /\ i \in PeerBits(p)
              /\ \E k \in 1..Len(pieces[i]) : pieces[i][k].status = "missing"

\* C24: while no peer of the swarm is unchoked the requester sends no
\* request frame and stays alive, and once an unchoked peer with capacity
\* that advertises a missing piece is present, a request frame is
\* eventually dispatched (or no such peer is left).
C24_WaitsForUnchokedPeerThenRequests ==
    /\ [][ RequestsDispatched' > RequestsDispatched => has_unchoked_peer ]_vars
    /\ [](~has_unchoked_peer => request_task # "dead")
    /\ \A n \in 0..(NumPeers * MaxFrames) :
          (EligiblePeerPresent /\ RequestsDispatched = n)
              ~> (RequestsDispatched > n \/ ~EligiblePeerPresent)

\* a piece frame has made every block of a piece AVAILABLE and the local
\* bitfield bit of the piece has not been set yet
MidPieceFrame ==
    \E i \in DOMAIN pieces : all_blocks_available(pieces[i]) /\ i \notin bitfield

\* C25: the mutations caused by one received piece frame (remove from
\* requested, set the block AVAILABLE, set the local bitfield bit when the
\* piece completes) are atomic with respect to the requester: no requester
\* step runs in a state between the first and the last of them.
C25_PieceFrameAtomicForRequester ==
    [][ MidPieceFrame => (request_task' = request_task /\ it' = it /\ rcur' = rcur) ]_vars

\* C26: disconnect is idempotent: Peer.disconnect on a session that is not
\* connected, Swarm.disconnect_peer on a peer that is already disconnected
\* and Swarm.remove_peer on a peer that is already removed raise no error
\* and leave the session and the peer list unchanged.
C26_DisconnectIdempotent ==
    [][ \A p \in PeerIds :
          ( \/ (~writer[p] /\ \E ok \in BOOLEAN : disconnect(p, ok))
            \/ (~writer[p] /\ \E ok \in BOOLEAN : disconnect_peer(p, ok))
            \/ (p \notin Range(peers) /\ \E ok \in BOOLEAN : remove_peer(p, ok)) )
          => ( /\ raised'[p] = "none"
               /\ writer' = writer
               /\ handshake' = handshake
               /\ peers' = peers ) ]_vars

\* C27: a session is handshaken only while it is connected, connect on a
\* connected session fails and leaves the session unchanged, and a session
\* that has been disconnected is never connected again: CLOSED is terminal.
C27_ConnectionStateMonotonic ==
    /\ [](\A p \in PeerIds : handshake[p] => writer[p])
    /\ [][ \A p \in PeerIds :
             (writer[p] /\ \E ok \in BOOLEAN : connect(p, ok))
             => (raised'[p] # "none" /\ writer' = writer /\ handshake' = handshake) ]_vars
    /\ [](\A p \in PeerIds : connects[p] <= 1)


\* ---------------------------------------------------------------------------
\* PieceManager.create_pieces called on its own
\* ---------------------------------------------------------------------------

MaxPieceLength == 4
MaxTotalLength == 12

\* everything but the called method's arguments and result
client == << config, manager, peerstate, wire, requester, leecher, api, peers,
             incoming_block_requests, reading, peer_queue, peer_message_queue, connected_task,
             peer_keep_alive_timeout_tasks, peer_keep_alive_interval_tasks, interested_sent,
             session, loop >>

\* The arguments TorrentClient passes: the Torrent's derived fields for a
\* metainfo of the given piece length and total length, and a block size that
\* divides the piece length.
PieceArguments ==
    { [piece_length |-> a[1], total_length |-> a[2], block_size |-> a[3],
       last_piece_length |-> last_piece_length(a),
       total_pieces |-> total_pieces(a),
       last_piece_index |-> last_piece_index(a)] :
        a \in { b \in (1..MaxPieceLength) \X (1..MaxTotalLength) \X (1..MaxPieceLength) :
                    b[3] <= b[1] /\ b[1] % b[3] = 0 } }

PiecesInit ==
    /\ Quiescent
    /\ max_connections = MAX_CONNECTIONS
    /\ call \in PieceArguments
    /\ result = NoResult

\* TorrentClient.__initialize_piece_manager: the one call of create_pieces.
initialize_piece_manager ==
    /\ result = NoResult
    /\ result' = create_pieces(call.piece_length, call.last_piece_length, call.total_pieces,
                               call.last_piece_index, FALSE, call.block_size)
    /\ UNCHANGED << client, call >>

PiecesNext == initialize_piece_manager

PiecesSpec == PiecesInit /\ [][PiecesNext]_vars

\* sum(block.length for block in blocks)
RECURSIVE SumLengths(_)
SumLengths(blocks) == IF blocks = <<>> THEN 0 ELSE Head(blocks).length + SumLengths(Tail(blocks))

\* the number of bytes of piece i of the content
ContentLengthOfPiece(c, i) ==
    Min(c.piece_length, c.total_length - i * c.piece_length)

\* the block layout of one piece is well formed for a piece of n bytes
WellFormedBlocks(blocks, n) ==
    /\ \A k \in 1..Len(blocks) : blocks[k].length > 0
    /\ \A k \in 1..(Len(blocks) - 1) : blocks[k].begin < blocks[k + 1].begin
    /\ SumLengths(blocks) = n

\* C28: for the boundary cases of (piece_length, last_piece_length,
\* total_pieces, block_size) -- a single piece, no short last piece,
\* piece_length = block_size, a last piece that is a multiple of block_size
\* but shorter than piece_length, a last block shorter than block_size --
\* create_pieces gives every piece blocks with strictly increasing begin and
\* positive length, whose lengths sum to piece_length for a piece that is not
\* the last and to the length of the last piece for the last.
C28_CreatePiecesBoundaryCases ==
    (call \in PieceArguments /\ result # NoResult) =>
        \A i \in DOMAIN result : WellFormedBlocks(result[i], ContentLengthOfPiece(call, i))


\* ---------------------------------------------------------------------------
\* FileHandler with a multi-file layout
\* ---------------------------------------------------------------------------

MaxFiles == 3
MaxFileLength == 2

Max(a, b) == IF a >= b THEN a ELSE b

RECURSIVE SumSeq(_)
SumSeq(s) == IF s = <<>> THEN 0 ELSE Head(s) + SumSeq(Tail(s))

\* byte g of the torrent's content; 0 is a byte that no piece holds
Content(g) == g + 1
Hole == 0

\* FileHandler.calc_file_offsets: (index, start, end) of every file
calc_file_offsets(lengths) ==
    [k \in 1..Len(lengths) |->
        LET current_offset == SumSeq(SubSeq(lengths, 1, k - 1))
        IN  << k, current_offset, current_offset + lengths[k] - 1 >>]

\* The FileHandler TorrentClient constructs for a metainfo with the given
\* piece length and file lengths.
FileLayouts ==
    { [piece_length |-> a[1], lengths |-> a[2],
       file_offsets |-> calc_file_offsets(a[2]),
       total_length |-> SumSeq(a[2]),
       last_piece_length |-> last_piece_length(<<a[1], SumSeq(a[2])>>),
       last_piece_index |-> last_piece_index(<<a[1], SumSeq(a[2])>>),
       total_pieces |-> total_pieces(<<a[1], SumSeq(a[2])>>)] :
        a \in (1..MaxPieceLength) \X
              UNION { [1..n -> 1..MaxFileLength] : n \in 2..MaxFiles } }

\* what get_files_by_piece_index gives when its while loop never ends
Hang == <<"hang">>

\* The for loop of get_files_by_piece_index from file k on, within one pass
\* of the while loop; matched tells whether this pass has appended a file.
RECURSIVE Walk(_, _, _, _, _, _)
Walk(fo, k, offset, remaining_length, files, matched) ==
    IF k > Len(fo)
    THEN \* the for loop ended without break: remaining_length is not 0
         IF matched THEN Walk(fo, 1, offset, remaining_length, files, FALSE)
         ELSE Hang
    ELSE IF fo[k][2] <= offset /\ offset <= fo[k][3]
    THEN LET left == remaining_length - (fo[k][3] - offset + 1)
             appended == Append(files, << fo[k][1], offset - fo[k][2] >>)
         IN  IF left <= 0
             THEN \* break; the while loop ends only on 0, and the next
                  \* pass matches the same file and subtracts again
                  IF left = 0 THEN appended ELSE Hang
             ELSE Walk(fo, k + 1, fo[k][3] + 1, left, appended, TRUE)
    ELSE Walk(fo, k + 1, offset, remaining_length, files, matched)

\* FileHandler.get_files_by_piece_index: (file, file["offset"]) pairs
get_files_by_piece_index(c, piece_index) ==
    LET offset == piece_index * c.piece_length
        remaining_length == IF piece_index = c.last_piece_index THEN c.last_piece_length
                            ELSE c.piece_length
    IN  IF remaining_length = 0 THEN <<>>
        ELSE Walk(c.file_offsets, 1, offset, remaining_length, <<>>, FALSE)

\* FileHandler.write_data: seek(offset) and write(data) on a file opened r+b
write_data(content, offset, data) ==
    [k \in 1..Max(Len(content), offset + Len(data)) |->
        IF offset < k /\ k <= offset + Len(data) THEN data[k - offset]
        ELSE IF k <= Len(content) THEN content[k]
        ELSE Hole]

\* the bytes of piece index that the Leecher hands to write_piece
PieceBytes(c, index) ==
    [k \in 1..ContentLengthOfPiece(c, index) |-> Content(index * c.piece_length + k - 1)]

FilesInit ==
    /\ Quiescent
    /\ max_connections = MAX_CONNECTIONS
    /\ call \in FileLayouts
    /\ result = [files |-> [k \in 1..Len(call.lengths) |-> <<>>],
                 attempted |-> {}, written |-> {}, hung |-> FALSE]

\* the files after write_data has returned for the first n entries of targets
RECURSIVE WriteEach(_, _, _, _)
WriteEach(files, targets, n, piece) ==
    IF n = 0 THEN files
    ELSE LET before == WriteEach(files, targets, n - 1, piece)
             file == targets[n]
         IN  [before EXCEPT ![file[1]] = write_data(@, file[2], piece)]

\* FileHandler.write_piece_on_multiple_files(index, piece); failing is the
\* number of the write_data call that raises, 0 when none does.
write_piece_on_multiple_files(index, failing) ==
    LET targets == get_files_by_piece_index(call, index) IN
    /\ ~result.hung
    /\ index \in 0..(call.total_pieces - 1)
    /\ index \notin result.attempted
    /\ IF targets = Hang
       THEN /\ failing = 0
            /\ result' = [result EXCEPT !.attempted = @ \cup {index}, !.hung = TRUE]
       ELSE /\ failing \in 0..Len(targets)
            /\ result' = [result EXCEPT
                            !.attempted = @ \cup {index},
                            !.written = IF failing = 0 THEN @ \cup {index} ELSE @,
                            !.files = WriteEach(@, targets,
                                                IF failing = 0 THEN Len(targets) ELSE failing - 1,
                                                PieceBytes(call, index))]
    /\ UNCHANGED << client, call >>

FilesNext ==
    \E index \in 0..(MaxFiles * MaxFileLength - 1), failing \in 0..MaxFiles :
        write_piece_on_multiple_files(index, failing)

FilesSpec == FilesInit /\ [][FilesNext]_vars

\* the file that holds byte g of the content, and the byte's offset in it
FileOf(c, g) == CHOOSE k \in 1..Len(c.lengths) : c.file_offsets[k][2] <= g /\ g <= c.file_offsets[k][3]
StoredAt(c, files, g) ==
    LET k == FileOf(c, g)
        at == g - c.file_offsets[k][2] + 1
    IN  IF at <= Len(files[k]) THEN files[k][at] ELSE Hole

BytesOfPiece(c, i) == { g \in 0..(c.total_length - 1) : g \div c.piece_length = i }

\* C29: in the multi-file layout, write_piece(index, B) writes into every
\* file that intersects the piece exactly the slice of B that falls in that
\* file, at the offset of that slice in the file, and nothing into other
\* files; so every written piece's bytes are in place, no file holds bytes
\* outside its own range or of a piece that was not written, write_piece
\* returns, and after all pieces each file holds exactly its byte range,
\* also when total_length is a multiple of piece_length.
C29_MultiFileWritePlacesSlices ==
    call \in FileLayouts =>
        /\ ~result.hung
        /\ \A i \in result.written : \A g \in BytesOfPiece(call, i) :
              StoredAt(call, result.files, g) = Content(g)
        /\ \A k \in 1..Len(call.lengths) : Len(result.files[k]) <= call.lengths[k]
        /\ \A i \in (0..(call.total_pieces - 1)) \ result.attempted :
              \A g \in BytesOfPiece(call, i) : StoredAt(call, result.files, g) = Hole


\* C30: the local bitfield and every peer's bitfield are ceil(total_pieces/8)
\* bytes long and have no bit set at a position >= total_pieces, whatever
\* set_piece calls, have messages and bitfield messages came before.
C30_BitfieldLengthAndSpareBitsZero ==
    LET positions == 0..(total_pieces(torrent) - 1)
    IN  /\ bitfield \subseteq positions
        /\ swarm_bitfield \subseteq positions
        /\ \A p \in PeerIds :
              /\ PeerBits(p) \subseteq positions
              /\ ~peer_bitfield[p].shared
                 => peer_bitfield[p].nbytes = CeilDiv(total_pieces(torrent), 8)


\* ---------------------------------------------------------------------------
\* The message codec: to_bytes of every message class, Peer.read_message and
\* parse_message
\* ---------------------------------------------------------------------------

MaxField == 1
MaxData == 1

\* an optional value: Python's None or a value
None == <<>>
Some(x) == <<x>>

\* struct.pack(">I", n) and struct.unpack(">I", b)
Pack32(n) == << (n \div 16777216) % 256, (n \div 65536) % 256, (n \div 256) % 256, n % 256 >>
Unpack32(b) == ((b[1] * 256 + b[2]) * 256 + b[3]) * 256 + b[4]

RECURSIVE PackFields(_)
PackFields(fields) ==
    IF fields = <<>> THEN <<>> ELSE Pack32(Head(fields)) \o PackFields(Tail(fields))

MessageKinds == {"keep_alive", "choke", "unchoke", "interested", "not_interested", "have",
                 "bitfield", "request", "piece", "cancel", "port"}

\* MESSAGE_ID of each message class
MESSAGE_ID(kind) ==
    CASE kind = "keep_alive" -> None
      [] kind = "choke" -> Some(0)
      [] kind = "unchoke" -> Some(1)
      [] kind = "interested" -> Some(2)
      [] kind = "not_interested" -> Some(3)
      [] kind = "have" -> Some(4)
      [] kind = "bitfield" -> Some(5)
      [] kind = "request" -> Some(6)
      [] kind = "piece" -> Some(7)
      [] kind = "cancel" -> Some(8)
      [] kind = "port" -> Some(9)

\* message_id_to_class.get(message_id, None)
message_id_to_class(message_id) ==
    IF \E kind \in MessageKinds : MESSAGE_ID(kind) = message_id
    THEN Some(CHOOSE kind \in MessageKinds : MESSAGE_ID(kind) = message_id)
    ELSE None

\* the number of integers of PAYLOAD_FORMAT
PAYLOAD_FORMAT(kind) ==
    CASE kind \in {"have", "port"} -> 1
      [] kind = "piece" -> 2
      [] kind \in {"request", "cancel"} -> 3
      [] OTHER -> 0

\* the class attribute SUPPORTS_PAYLOAD; PortMessage does not define it and
\* neither does Message
SUPPORTS_PAYLOAD(kind) ==
    CASE kind \in {"have", "bitfield", "request", "piece", "cancel"} -> "True"
      [] kind = "port" -> "AttributeError"
      [] OTHER -> "False"

\* A message object: its class, message_length as __init__ computes it, the
\* integer attributes in the order of __init__ and the bytes attribute
\* (BitFieldMessage.data, PieceMessage.piece).
Message(kind, fields, data) ==
    [kind |-> kind,
     message_length |-> IF kind = "keep_alive" THEN 0
                        ELSE 1 + 4 * PAYLOAD_FORMAT(kind) + Len(data),
     fields |-> fields, data |-> data]

\* values of an integer attribute: zero, one byte, more than one byte
FieldValues == {0, MaxField, 256 * MaxField + 1}

\* byte strings of the lengths 0..n
ByteStrings(n) == UNION { [1..k -> {0, 255}] : k \in 0..n }

\* bitfields of the lengths 0, 1, 8 and 9
BitFieldData == { [k \in 1..n |-> b] : n \in {0, 1, 8, 9}, b \in {0, 128 + MaxField} }

CodecMessages ==
    { Message(kind, <<>>, <<>>) :
        kind \in {"keep_alive", "choke", "unchoke", "interested", "not_interested"} }
    \cup { Message(kind, <<v>>, <<>>) : kind \in {"have", "port"}, v \in FieldValues }
    \cup { Message("bitfield", <<>>, d) : d \in BitFieldData }
    \cup { Message(kind, <<i, b, l>>, <<>>) :
             kind \in {"request", "cancel"}, i \in FieldValues, b \in FieldValues,
             l \in FieldValues }
    \cup { Message("piece", <<i, b>>, d) :
             i \in FieldValues, b \in FieldValues, d \in ByteStrings(MaxData) }

\* to_bytes of the message's class
to_bytes(m) ==
    IF m.kind = "keep_alive" THEN Pack32(m.message_length)
    ELSE Pack32(m.message_length) \o MESSAGE_ID(m.kind) \o PackFields(m.fields) \o m.data

\* what a call may raise instead of returning
Raised(exc) == [raised |-> exc]

\* from_bytes of the class: struct.unpack wants exactly the bytes of the format
from_bytes(kind, payload) ==
    CASE kind = "bitfield" -> Message(kind, <<>>, payload)
      [] kind = "piece" ->
            IF Len(payload) < 8 THEN Raised("struct.error")
            ELSE Message(kind, << Unpack32(SubSeq(payload, 1, 4)), Unpack32(SubSeq(payload, 5, 8)) >>,
                         SubSeq(payload, 9, Len(payload)))
      [] kind \in {"have", "port", "request", "cancel"} ->
            IF Len(payload) # 4 * PAYLOAD_FORMAT(kind) THEN Raised("struct.error")
            ELSE Message(kind,
                         [k \in 1..PAYLOAD_FORMAT(kind) |->
                             Unpack32(SubSeq(payload, 4 * k - 3, 4 * k))],
                         <<>>)
      [] OTHER -> Raised("NotImplementedError")

\* message_class(): the constructor called without arguments
construct(kind) ==
    IF PAYLOAD_FORMAT(kind) = 0 /\ kind # "bitfield" THEN Message(kind, <<>>, <<>>)
    ELSE Raised("TypeError")

parse_message(message_length, message_id, payload) ==
    IF message_length = 0 THEN Message("keep_alive", <<>>, <<>>)
    ELSE IF message_id = None THEN Raised("ValueError")
    ELSE LET message_class == message_id_to_class(message_id) IN
         IF message_class = None THEN Raised("UnknownMessageError")
         ELSE IF payload = None \/ payload = Some(<<>>) THEN construct(message_class[1])
         ELSE CASE SUPPORTS_PAYLOAD(message_class[1]) = "True" ->
                        from_bytes(message_class[1], payload[1])
                [] SUPPORTS_PAYLOAD(message_class[1]) = "False" -> construct(message_class[1])
                [] OTHER -> Raised("AttributeError")

\* Peer.read_message on a stream that holds the frame: the length prefix,
\* the body of that length, its first byte as id and the rest as payload
read_message_of(frame) ==
    LET message_length == Unpack32(SubSeq(frame, 1, 4))
        data == SubSeq(frame, 5, 4 + message_length)
        data_length == Len(data)
    IN  IF Len(frame) < 4 + message_length THEN Raised("PeerError")
        ELSE parse_message(message_length,
                           IF data_length > 0 THEN Some(data[1]) ELSE None,
                           IF data_length > 1 THEN Some(SubSeq(data, 2, data_length)) ELSE None)

CodecInit ==
    /\ Quiescent
    /\ max_connections = MAX_CONNECTIONS
    /\ call \in CodecMessages
    /\ result = NoResult

\* Peer.send_message: the frame message.to_bytes() puts on the stream
send_message ==
    /\ result = NoResult
    /\ result' = << "frame", to_bytes(call) >>
    /\ UNCHANGED << client, call >>

\* Peer.read_message at the other end of the stream
read_message ==
    /\ result[1] = "frame"
    /\ result' = << "read", read_message_of(result[2]) >>
    /\ UNCHANGED << client, call >>

CodecNext == send_message \/ read_message

CodecSpec == CodecInit /\ [][CodecNext]_vars

\* C31: for every message kind (keep-alive, choke, unchoke, interested,
\* not-interested, have, bitfield of the lengths 0, 1, 8 and 9, request,
\* piece, cancel, port), the frame of to_bytes decoded the way read_message
\* does gives a message of the same kind with the same field values.
C31_DecodeOfEncodeIsIdentity ==
    (call \in CodecMessages /\ result[1] = "read") => result[2] = call


\* C32: a peer's bitfield is changed only by the handling of a have or
\* bitfield message read from that same peer; such a message changes no other
\* peer's bitfield and not the bitfield the swarm hands to newly connected
\* peers, so a peer that is not yet in the swarm starts with no piece
\* advertised.
C32_BitfieldChangedOnlyByOwnReader ==
    /\ [][ \A p \in PeerIds :
             /\ PeerBits(p)' # PeerBits(p) => FrameRead(p).kind \in {"have", "bitfield"}
             /\ FrameRead(p).kind \in {"have", "bitfield"} => swarm_bitfield' = swarm_bitfield ]_vars
    /\ [](\A p \in PeerIds : p \notin Range(peers) => PeerBits(p) = {})


\* ---------------------------------------------------------------------------
\* The engine with piece messages that name no block of the torrent
\* ---------------------------------------------------------------------------

\* piece messages with an index that is no piece, and with a begin that is
\* the start of no block of its piece
InvalidPieceMessages ==
    { PieceMessage(Cardinality(DOMAIN pieces), 0, GoodPayload(0, 0)),
      PieceMessage(0, torrent[1], GoodPayload(0, 0)) }

\* the reader of p reads such a message and hands it to the subscribers
ReadInvalidPiece(p, m) == ReadFrame(p, m, InvalidPieceMessages)

InvalidPieceNext ==
    \/ Next
    \/ \E p \in PeerIds : \E m \in InvalidPieceMessages : ReadInvalidPiece(p, m)

InvalidPieceSpec == Init /\ [][InvalidPieceNext]_vars

\* the message task takes a piece message that names no block
TakesInvalidPiece ==
    /\ message_task = "get"
    /\ peer_message_queue # <<>>
    /\ Head(peer_message_queue)[2] \in InvalidPieceMessages
    /\ peer_message_queue' = Tail(peer_message_queue)

\* C33: a piece message with an index outside [0, total_pieces) or a begin
\* that is no block start of its piece is dropped with no state change, and
\* the message task stays alive for the later messages of all peers.
C33_InvalidPieceMessageDropped ==
    [][ TakesInvalidPiece
        => ( /\ message_task' = "get"
             /\ UNCHANGED << manager, disk, have_sent >> ) ]_vars


\* ---------------------------------------------------------------------------
\* The engine with one peer that cooperates
\* ---------------------------------------------------------------------------

\* p is connected, has unchoked us and advertises every piece
Cooperates(p) ==
    /\ p \in Range(peers)
    /\ writer[p]
    /\ ~is_choking(p)
    /\ DOMAIN pieces \subseteq PeerBits(p)

\* The engine after peer 1 was added, completed its handshake and sent a full
\* bitfield and unchoke, which the Leecher has taken from its queue; frames
\* are counted from here.
CoopInit ==
    /\ torrent \in Torrents
    /\ max_block_requests_per_peer \in 1..MaxBlockRequestsCfg
    /\ max_block_requests_to_peers = max_block_requests_per_peer
    /\ accept_unrequested_blocks \in BOOLEAN
    /\ pieces = create_pieces(torrent[1], last_piece_length(torrent), total_pieces(torrent),
                              last_piece_index(torrent), FALSE, BlockSize)
    /\ missing_blocks = BlocksWithStatus(pieces, "missing")
    /\ requested_blocks = BlocksWithStatus(pieces, "requested")
    /\ bitfield = { i \in DOMAIN pieces : all_blocks_available(pieces[i]) }
    /\ swarm_bitfield = {}
    /\ peers = <<1>>
    /\ writer = [p \in PeerIds |-> p = 1]
    /\ handshake = [p \in PeerIds |-> p = 1]
    /\ status = [p \in PeerIds |-> IF p = 1 THEN {} ELSE {CHOKING, AM_CHOKING}]
    /\ peer_bitfield = [p \in PeerIds |->
                          IF p = 1 THEN [shared |-> FALSE, bits |-> DOMAIN pieces,
                                         nbytes |-> ExpectedBitfieldLength]
                          ELSE [shared |-> TRUE, bits |-> {}, nbytes |-> 0]]
    /\ incoming_block_requests = [p \in PeerIds |-> <<>>]
    /\ reading = [p \in PeerIds |-> IF p = 1 THEN "running" ELSE "none"]
    /\ frames_read = 0
    /\ answered = {}
    /\ peer_queue = <<>>
    /\ peer_message_queue = <<>>
    /\ connected_task = "dead"
    /\ message_task = "get"
    /\ lcur = NoPiece
    /\ request_task = "start"
    /\ it = 0
    /\ rcur = NoRequest
    /\ disk = [i \in DOMAIN pieces |-> NotWritten]
    /\ have_sent = {}
    /\ pieces_availability_counter = [i \in DOMAIN pieces |-> 1]
    /\ peer_keep_alive_timeout_tasks = {}
    /\ peer_keep_alive_interval_tasks = {}
    /\ interested_sent = {}
    /\ loop = NoLoop
    /\ max_connections = MAX_CONNECTIONS
    /\ connecting = {}
    /\ peer_queues = <<"_peer_queue">>
    /\ peer_message_queues = <<"_peer_message_queue">>
    /\ queue_items = [q \in QueueIds |-> <<>>]
    /\ read_log = [p \in PeerIds |-> <<>>]
    /\ raised = [p \in PeerIds |-> "none"]
    /\ connects = [p \in PeerIds |-> IF p = 1 THEN 1 ELSE 0]
    /\ call = NoCall
    /\ result = NoResult

\* The peer answers a request that is in flight to it with the block's bytes
\* and the reader of p reads the frame.
AnswerRequest(p, i, begin) ==
    /\ i \in DOMAIN pieces
    /\ <<PieceObj(i), BlockObj(i, begin)>> \in Range(incoming_block_requests[p])
    /\ <<p, PieceObj(i), BlockObj(i, begin)>> \notin answered
    /\ ReadFrame(p, PieceMessage(i, begin, GoodPayload(i, begin)),
                 {PieceMessage(i, begin, GoodPayload(i, begin))})

\* every send and every disk write succeeds, the peer sends nothing but
\* answers
CoopNext ==
    \/ RequesterStart
    \/ RequesterWake
    \/ RequestBlockFromPeer(TRUE)
    \/ \E p \in PeerIds : \E i \in 0..MaxFrames : \E begin \in 0..(MaxFrames * BlockSize) :
          AnswerRequest(p, i, begin)
    \/ HandleMessage
    \/ WritePiece(TRUE)
    \/ SendHave(TRUE)

\* fair scheduling of the tasks, and a peer that answers every request
CoopFairness ==
    /\ WF_vars(RequesterStart)
    /\ WF_vars(RequesterWake)
    /\ WF_vars(RequestBlockFromPeer(TRUE))
    /\ WF_vars(\E p \in PeerIds : \E i \in 0..MaxFrames : \E begin \in 0..(MaxFrames * BlockSize) :
                  AnswerRequest(p, i, begin))
    /\ WF_vars(HandleMessage)
    /\ WF_vars(WritePiece(TRUE))
    /\ WF_vars(SendHave(TRUE))

CoopSpec == CoopInit /\ [][CoopNext]_vars /\ CoopFairness

\* every block of the torrent has been requested from some peer
EveryBlockRequested ==
    \A i \in DOMAIN pieces : \A k \in 1..Len(pieces[i]) :
        \E p \in PeerIds :
            <<PieceObj(i), BlockObj(i, pieces[i][k].begin)>> \in Range(incoming_block_requests[p])

\* every piece is on disk and its bit is set in the local bitfield
EveryPieceOnDisk ==
    \A i \in DOMAIN pieces : disk[i] # NotWritten /\ i \in bitfield

\* C34: with a peer that stays connected, is unchoked, advertises every
\* piece and answers every request with the correct block, and with more
\* blocks than max_block_requests_per_peer, under fair scheduling every block
\* is eventually requested and every piece is eventually on disk with its
\* bit set in the local bitfield.
C34_CooperativePeerCompletesDownload ==
    ([](\E p \in PeerIds : Cooperates(p)))
        => (<>EveryBlockRequested /\ <>EveryPieceOnDisk)


\* C35: the requester's outer loop reaches a suspension point in every
\* iteration, so it never runs on without yielding; in particular the
\* message task can take a pending message whenever it waits on its queue,
\* also when the missing queue is empty, blocks are in flight and a peer is
\* unchoked.
C35_RequesterYieldsEveryIteration ==
    /\ request_task # "spin"
    /\ (message_task = "get" /\ peer_message_queue # <<>>) => ENABLED HandleMessage


\* the for loop of request_blocks is exhausted: the pass over the missing
\* queue ends with this wake-up
PassEnds == RequesterWake /\ it >= Len(missing_blocks)

\* C36: in one pass of the requester over the missing queue no block is
\* skipped: every block of the queue that has an eligible peer at its turn is
\* dispatched in that pass, although dispatching removes blocks from the
\* queue. With a peer that stays eligible and sends that succeed, no block
\* with an eligible peer is left in the queue when the pass ends.
C36_PassSkipsNoBlock ==
    [][ PassEnds
        => \A k \in 1..Len(missing_blocks) :
              get_peers("True", "True", <<missing_blocks[k][1][2]>>) = <<>> ]_vars


\* the step in which the request frame of the send task is written
RequestFrameWritten ==
    /\ request_task = "send"
    /\ Len(incoming_block_requests'[rcur.peer]) = Len(incoming_block_requests[rcur.peer]) + 1

\* C37: every request frame is written to a peer that, when the frame is
\* written, is in the swarm's peer set, is unchoked, has in-flight capacity
\* and advertises the piece, whatever the reader, keep-alive and inactivity
\* tasks did between the selection of the peer and the send.
C37_RequestOnlyToEligiblePeer ==
    [][ RequestFrameWritten
        => ( /\ rcur.peer \in Range(peers)
             /\ ~is_choking(rcur.peer)
             /\ can_accept_more_incoming_block_requests(rcur.peer)
             /\ rcur.index \in PeerBits(rcur.peer) ) ]_vars


\* C38: no request frame is sent for a block whose status is AVAILABLE nor
\* for a block of a piece that is on disk: an accepted block, requested or
\* not, is not dispatched again.
C38_NoRequestForAcceptedBlock ==
    [][ RequestFrameWritten
        => ( /\ pieces[rcur.index][BlockPos(pieces[rcur.index], rcur.begin)].status # "available"
             /\ disk[rcur.index] = NotWritten ) ]_vars


\* ==================================================== removal of a peer by its own tasks
\* The three tasks the swarm keeps per peer: broadcast_peer_messages
\* (_peer_message_reading_tasks), monitor_inactivity
\* (_peer_keep_alive_timeout_tasks) and send_keep_alive_periodically
\* (_peer_keep_alive_interval_tasks), each a coroutine that calls remove_peer
\* from inside its loop.  `loop` holds, per task, where its coroutine is
\* suspended (pc), the future or task it waits for (wait), Task._must_cancel,
\* the exception travelling through remove_peer's finally (exc) and how the
\* task ended (outcome); the FIFO of handles the event loop will run (ready);
\* the done-callbacks of each task and of the stream's close waiter
\* (waiters); and whether the handle at the head of ready is in the middle of
\* its run (running).
TaskKinds == {"reading", "timeout", "interval"}

Errors == {"KeyError", "ValueError"}

\* Swarm._peer_message_reading_tasks: start_peer_message_reading adds the
\* entry and nothing deletes it.
peer_message_reading_tasks == { p \in PeerIds : reading[p] # "none" }

\* Task.cancel: a done task is left alone; a task waiting for another task
\* hands the request to it; a task waiting for a future gets the future
\* cancelled and is woken with CancelledError; a task that is running or
\* already scheduled gets _must_cancel.  Two tasks that wait for each other
\* recurse until RecursionError.
RECURSIVE cancel(_, _, _)
cancel(l, u, seen) ==
    LET task == l.tasks[u] IN
    IF u \in seen THEN [ok |-> "RecursionError", loop |-> l]
    ELSE IF task.outcome # "pending" THEN [ok |-> "False", loop |-> l]
    ELSE IF task.wait \in TaskKinds
    THEN LET r == cancel(l, task.wait, seen \cup {u}) IN
         IF r.ok = "False"
         THEN [ok |-> "True", loop |-> [l EXCEPT !.tasks[u].must_cancel = TRUE]]
         ELSE r
    ELSE IF task.wait = "future"
    THEN [ok |-> "True",
          loop |-> [l EXCEPT !.tasks[u].wait = "none", !.tasks[u].must_cancel = TRUE,
                             !.ready = Append(@, u)]]
    ELSE IF task.wait = "closed"
    THEN [ok |-> "True",
          loop |-> [l EXCEPT !.close_waiter = "cancelled",
                             !.tasks = [k \in TaskKinds |->
                                           IF l.tasks[k].wait = "closed"
                                           THEN [l.tasks[k] EXCEPT !.wait = "none"]
                                           ELSE l.tasks[k]],
                             !.ready = @ \o l.waiters["closed"],
                             !.waiters["closed"] = <<>>]]
    ELSE [ok |-> "True", loop |-> [l EXCEPT !.tasks[u].must_cancel = TRUE]]

\* the running coroutine goes on to its next statement
goto(l, t, pc) == [l EXCEPT !.tasks[t].pc = pc, !.running = TRUE]

\* the coroutine of task t returns or raises: the task is done and its
\* done-callbacks, the wakeups of the tasks awaiting it, are scheduled
finish(l, t, outcome) ==
    [l EXCEPT !.tasks = [k \in TaskKinds |->
                            IF k = t
                            THEN [l.tasks[t] EXCEPT !.pc = "end", !.outcome = outcome,
                                                    !.must_cancel = FALSE]
                            ELSE IF l.tasks[k].wait = t
                            THEN [l.tasks[k] EXCEPT !.wait = "none"]
                            ELSE l.tasks[k]],
              !.ready = Tail(@) \o l.waiters[t],
              !.waiters[t] = <<>>,
              !.running = FALSE]

\* what `await task` inside `try ... except asyncio.CancelledError: pass`
\* gives for a task that is done: CancelledError is swallowed, the task's own
\* exception is raised again and reaches remove_peer's `except Exception`;
\* the RuntimeError of a task awaiting itself goes the same way.
result_of_await(l, t, u, next) ==
    IF l.tasks[u].outcome \in Errors \cup {"pending"}
    THEN goto(l, t, "finally")
    ELSE goto(l, t, next)

\* `await task`: a done task does not suspend; a task awaiting itself is
\* scheduled again by call_soon; otherwise the task waits for the other
\* one, and Task.__step passes a pending _must_cancel on to it.
await(l, t, u, pc, next) ==
    IF u = t
    THEN [l EXCEPT !.tasks[t].pc = pc, !.ready = Append(Tail(@), t), !.running = FALSE]
    ELSE IF l.tasks[u].outcome # "pending"
    THEN result_of_await(l, t, u, next)
    ELSE LET s == [l EXCEPT !.tasks[t].pc = pc, !.tasks[t].wait = u, !.ready = Tail(@),
                            !.waiters[u] = Append(@, t), !.running = FALSE]
         IN  IF ~s.tasks[t].must_cancel
             THEN s
             ELSE LET r == cancel(s, u, {}) IN
                  IF r.ok = "True"
                  THEN [r.loop EXCEPT !.tasks[t].must_cancel = FALSE]
                  ELSE r.loop

Awaited(pc) ==
    CASE pc = "awaiting_reading" -> "reading"
      [] pc = "awaiting_timeout" -> "timeout"
      [] pc = "awaiting_interval" -> "interval"

After(pc) ==
    CASE pc = "awaiting_reading" -> "disable_timeout"
      [] pc = "awaiting_timeout" -> "disable_interval"
      [] pc = "awaiting_interval" -> "disconnect"

\* the handle the event loop runs now is the step of task t, at one of pcs
At(t, pcs) ==
    /\ loop.ready # <<>>
    /\ Head(loop.ready) = t
    /\ loop.tasks[t].pc \in pcs

ReaderState(l) ==
    LET o == l.tasks["reading"].outcome IN
    IF o = "pending" THEN "running" ELSE IF o \in Errors THEN "crashed" ELSE "done"

\* the new state of the loop, with the reader's state as the engine sees it
Commit(l) ==
    /\ loop' = l
    /\ reading' = [reading EXCEPT ![l.tasks["reading"].peer] = ReaderState(l)]

outside_removal == << config, manager, wire, requester, leecher, api, interested_sent, session,
                      pure, handshake, status, peer_bitfield, swarm_bitfield,
                      incoming_block_requests, peer_queue, peer_message_queue, connected_task >>

\* A swarm with one connected peer whose reader, inactivity monitor and
\* keep-alive sender were started and are suspended in their loops.
RemovalInit ==
    \E p \in PeerIds :
    /\ torrent = <<BlockSize, 2 * BlockSize>>
    /\ max_block_requests_per_peer = 1
    /\ max_block_requests_to_peers = 1
    /\ accept_unrequested_blocks = TRUE
    /\ pieces = create_pieces(torrent[1], last_piece_length(torrent), total_pieces(torrent),
                              last_piece_index(torrent), FALSE, BlockSize)
    /\ missing_blocks = BlocksWithStatus(pieces, "missing")
    /\ requested_blocks = BlocksWithStatus(pieces, "requested")
    /\ bitfield = { i \in DOMAIN pieces : all_blocks_available(pieces[i]) }
    /\ swarm_bitfield = {}
    /\ peers = <<p>>
    /\ writer = [q \in PeerIds |-> q = p]
    /\ handshake = [q \in PeerIds |-> q = p]
    /\ status = [q \in PeerIds |-> {CHOKING, AM_CHOKING}]
    /\ peer_bitfield = [q \in PeerIds |-> [shared |-> TRUE, bits |-> {}, nbytes |-> 0]]
    /\ incoming_block_requests = [q \in PeerIds |-> <<>>]
    /\ reading = [q \in PeerIds |-> IF q = p THEN "running" ELSE "none"]
    /\ frames_read = 0
    /\ answered = {}
    /\ peer_queue = <<>>
    /\ peer_message_queue = <<>>
    /\ connected_task = "none"
    /\ message_task = "none"
    /\ lcur = NoPiece
    /\ request_task = "none"
    /\ it = 0
    /\ rcur = NoRequest
    /\ disk = [i \in DOMAIN pieces |-> NotWritten]
    /\ have_sent = {}
    /\ pieces_availability_counter = [i \in DOMAIN pieces |-> 0]
    /\ peer_keep_alive_timeout_tasks = {p}
    /\ peer_keep_alive_interval_tasks = {p}
    /\ interested_sent = {}
    /\ max_connections = MAX_CONNECTIONS
    /\ connecting = {}
    /\ peer_queues = <<>>
    /\ peer_message_queues = <<>>
    /\ queue_items = [q \in QueueIds |-> <<>>]
    /\ read_log = [q \in PeerIds |-> <<>>]
    /\ raised = [q \in PeerIds |-> "none"]
    /\ connects = [q \in PeerIds |-> IF q = p THEN 1 ELSE 0]
    /\ call = NoCall
    /\ result = NoResult
    /\ loop = [ tasks |-> [t \in TaskKinds |->
                              [peer |-> p, pc |-> "wait", wait |-> "future",
                               must_cancel |-> FALSE, exc |-> "none", removing |-> FALSE,
                               outcome |-> "pending"]],
                ready |-> <<>>,
                waiters |-> [f \in TaskKinds \cup {"closed"} |-> <<>>],
                close_waiter |-> "open",
                running |-> FALSE,
                removed |-> 0 ]

\* The future a task's loop waits for completes between two handles of the
\* event loop: read_message is about to raise PeerError (reading), the
\* inactivity sleep is over with no time remaining (timeout), the interval
\* sleep is over and the keep-alive send is about to fail (interval).
Trigger(t) ==
    /\ ~loop.running
    /\ loop.tasks[t].pc = "wait"
    /\ loop.tasks[t].wait = "future"
    /\ Commit([loop EXCEPT !.tasks[t].pc = "woken", !.tasks[t].wait = "none",
                           !.ready = Append(@, t)])
    /\ UNCHANGED << outside_removal, peers, writer, peer_keep_alive_timeout_tasks,
                    peer_keep_alive_interval_tasks >>

\* The task is resumed inside its loop: CancelledError ends it; otherwise
\* the two sleepers test `while peer.is_connected`, and remove_peer is
\* called, which raises KeyError for a peer that is not in the list.
wake_in_loop(t) ==
    /\ At(t, {"wait", "woken"})
    /\ LET task == loop.tasks[t] IN
       Commit(IF task.must_cancel
              THEN finish(loop, t, "cancelled")
              ELSE IF t # "reading" /\ ~writer[task.peer]
              THEN finish(loop, t, "finished")
              ELSE IF task.peer \notin Range(peers)
              THEN finish(loop, t, "KeyError")
              ELSE goto([loop EXCEPT !.tasks[t].removing = TRUE], t, "stop_reading"))
    /\ UNCHANGED << outside_removal, peers, writer, peer_keep_alive_timeout_tasks,
                    peer_keep_alive_interval_tasks >>

\* disconnect_peer, first test, and stop_peer_message_reading: task.cancel()
\* and `await task`, the entry stays in the map.
stop_peer_message_reading(t) ==
    /\ At(t, {"stop_reading"})
    /\ LET r == cancel(loop, "reading", {}) IN
       Commit(IF loop.tasks[t].peer \notin peer_message_reading_tasks
              THEN goto(loop, t, "disable_timeout")
              ELSE IF r.ok = "RecursionError"
              THEN goto(loop, t, "finally")
              ELSE await(r.loop, t, "reading", "awaiting_reading", "disable_timeout"))
    /\ UNCHANGED << outside_removal, peers, writer, peer_keep_alive_timeout_tasks,
                    peer_keep_alive_interval_tasks >>

\* disconnect_peer, second test, and disable_peer_inactivity_timeout: pop,
\* task.cancel() and `await task`.
disable_peer_inactivity_timeout(t) ==
    /\ At(t, {"disable_timeout"})
    /\ LET p == loop.tasks[t].peer
           r == cancel(loop, "timeout", {})
       IN  IF p \notin peer_keep_alive_timeout_tasks
           THEN /\ Commit(goto(loop, t, "disable_interval"))
                /\ UNCHANGED peer_keep_alive_timeout_tasks
           ELSE /\ peer_keep_alive_timeout_tasks' = peer_keep_alive_timeout_tasks \ {p}
                /\ Commit(IF r.ok = "RecursionError"
                          THEN goto(loop, t, "finally")
                          ELSE await(r.loop, t, "timeout", "awaiting_timeout", "disable_interval"))
    /\ UNCHANGED << outside_removal, peers, writer, peer_keep_alive_interval_tasks >>

\* disconnect_peer, third test, and disable_peer_keep_alive_interval.
disable_peer_keep_alive_interval(t) ==
    /\ At(t, {"disable_interval"})
    /\ LET p == loop.tasks[t].peer
           r == cancel(loop, "interval", {})
       IN  IF p \notin peer_keep_alive_interval_tasks
           THEN /\ Commit(goto(loop, t, "disconnect"))
                /\ UNCHANGED peer_keep_alive_interval_tasks
           ELSE /\ peer_keep_alive_interval_tasks' = peer_keep_alive_interval_tasks \ {p}
                /\ Commit(IF r.ok = "RecursionError"
                          THEN goto(loop, t, "finally")
                          ELSE await(r.loop, t, "interval", "awaiting_interval", "disconnect"))
    /\ UNCHANGED << outside_removal, peers, writer, peer_keep_alive_timeout_tasks >>

\* The task is resumed at an `await task`: a pending cancellation is thrown
\* in and swallowed by `except asyncio.CancelledError: pass`, else the awaited
\* task's result is taken.
resume_await(t) ==
    /\ At(t, {"awaiting_reading", "awaiting_timeout", "awaiting_interval"})
    /\ LET pc == loop.tasks[t].pc IN
       Commit(IF loop.tasks[t].must_cancel
              THEN goto([loop EXCEPT !.tasks[t].must_cancel = FALSE], t, After(pc))
              ELSE result_of_await(loop, t, Awaited(pc), After(pc)))
    /\ UNCHANGED << outside_removal, peers, writer, peer_keep_alive_timeout_tasks,
                    peer_keep_alive_interval_tasks >>

\* Peer.disconnect up to its await: RuntimeError without a writer (caught by
\* remove_peer); writer.close() schedules connection_lost the first time;
\* wait_closed awaits the stream's close waiter, which does not suspend when
\* it is done.
peer_disconnect(t) ==
    /\ At(t, {"disconnect"})
    /\ LET p == loop.tasks[t].peer
           closing == IF loop.close_waiter = "open"
                      THEN [loop EXCEPT !.close_waiter = "closing",
                                        !.ready = Append(@, "connection_lost")]
                      ELSE loop
       IN  IF ~writer[p]
           THEN Commit(goto(loop, t, "finally")) /\ UNCHANGED writer
           ELSE IF closing.close_waiter = "closing"
           THEN /\ Commit([closing EXCEPT !.tasks[t].pc = "closed", !.tasks[t].wait = "closed",
                                          !.ready = Tail(@), !.waiters["closed"] = Append(@, t),
                                          !.running = FALSE])
                /\ UNCHANGED writer
           ELSE IF closing.close_waiter = "cancelled"
           THEN /\ Commit(goto([closing EXCEPT !.tasks[t].exc = "CancelledError"], t, "finally"))
                /\ UNCHANGED writer
           ELSE /\ Commit(goto(closing, t, "finally"))
                /\ writer' = [writer EXCEPT ![p] = FALSE]
    /\ UNCHANGED << outside_removal, peers, peer_keep_alive_timeout_tasks,
                    peer_keep_alive_interval_tasks >>

\* The transport's _call_connection_lost: the close waiter gets its result
\* unless it was cancelled, and the tasks in wait_closed are scheduled.
connection_lost ==
    /\ loop.ready # <<>>
    /\ Head(loop.ready) = "connection_lost"
    /\ Commit(IF loop.close_waiter = "closing"
              THEN [loop EXCEPT !.close_waiter = "lost",
                                !.tasks = [k \in TaskKinds |->
                                              IF loop.tasks[k].wait = "closed"
                                              THEN [loop.tasks[k] EXCEPT !.wait = "none"]
                                              ELSE loop.tasks[k]],
                                !.ready = Tail(@) \o loop.waiters["closed"],
                                !.waiters["closed"] = <<>>]
              ELSE [loop EXCEPT !.ready = Tail(@)])
    /\ UNCHANGED << outside_removal, peers, writer, peer_keep_alive_timeout_tasks,
                    peer_keep_alive_interval_tasks >>

\* The task is resumed in wait_closed: CancelledError is no Exception, it
\* leaves Peer.disconnect and remove_peer's except clause; otherwise
\* `self.reader, self.writer = None, None`.
wait_closed(t) ==
    /\ At(t, {"closed"})
    /\ LET p == loop.tasks[t].peer IN
       IF loop.tasks[t].must_cancel \/ loop.close_waiter = "cancelled"
       THEN /\ Commit(goto([loop EXCEPT !.tasks[t].must_cancel = FALSE,
                                        !.tasks[t].exc = "CancelledError"], t, "finally"))
            /\ UNCHANGED writer
       ELSE /\ Commit(goto(loop, t, "finally"))
            /\ writer' = [writer EXCEPT ![p] = FALSE]
    /\ UNCHANGED << outside_removal, peers, peer_keep_alive_timeout_tasks,
                    peer_keep_alive_interval_tasks >>

\* remove_peer's finally: self.peers.remove(peer) raises ValueError for a
\* peer that is no longer in the list; otherwise the travelling
\* CancelledError goes on, or remove_peer returns and the loop breaks.
peers_remove(t) ==
    /\ At(t, {"finally"})
    /\ LET p == loop.tasks[t].peer IN
       IF p \in Range(peers)
       THEN /\ peers' = RemoveFirst(peers, p)
            /\ Commit(finish([loop EXCEPT !.removed = @ + 1], t,
                             IF loop.tasks[t].exc = "CancelledError" THEN "cancelled"
                             ELSE "finished"))
       ELSE /\ UNCHANGED peers
            /\ Commit(finish(loop, t, "ValueError"))
    /\ UNCHANGED << outside_removal, writer, peer_keep_alive_timeout_tasks,
                    peer_keep_alive_interval_tasks >>

RemovalNext ==
    \/ \E t \in TaskKinds : Trigger(t)
    \/ \E t \in TaskKinds : wake_in_loop(t)
    \/ \E t \in TaskKinds : stop_peer_message_reading(t)
    \/ \E t \in TaskKinds : disable_peer_inactivity_timeout(t)
    \/ \E t \in TaskKinds : disable_peer_keep_alive_interval(t)
    \/ \E t \in TaskKinds : resume_await(t)
    \/ \E t \in TaskKinds : peer_disconnect(t)
    \/ connection_lost
    \/ \E t \in TaskKinds : wait_closed(t)
    \/ \E t \in TaskKinds : peers_remove(t)

RemovalSpec == RemovalInit /\ [][RemovalNext]_vars


\* several tasks of the peer have called remove_peer
RemovalConcurrent == Cardinality({ t \in TaskKinds : loop.tasks[t].removing }) >= 2

\* the event loop has nothing left to run and no task of the peer sleeps
\* in its loop
RemovalSettled ==
    /\ loop.ready = <<>>
    /\ \A t \in TaskKinds : loop.tasks[t].pc # "wait"

ThePeer == loop.tasks["reading"].peer

\* C39: when several tasks of one peer (reader on a read failure, keep-alive
\* sender on a send failure, inactivity monitor on its timeout) call
\* remove_peer concurrently, then once the event loop has nothing left to run
\* the peer was removed from the peer set exactly once, no task ended with
\* an unhandled error, all three tasks of the peer have ended, and no
\* per-peer task map of the swarm holds an entry for the peer.
C39_ConcurrentRemovalIsClean ==
    (RemovalConcurrent /\ RemovalSettled)
        => /\ loop.removed = 1
           /\ ThePeer \notin Range(peers)
           /\ \A t \in TaskKinds : loop.tasks[t].outcome \in {"finished", "cancelled"}
           /\ ThePeer \notin peer_message_reading_tasks
           /\ ThePeer \notin peer_keep_alive_timeout_tasks
           /\ ThePeer \notin peer_keep_alive_interval_tasks


\* the files that hold a byte of piece i, in file order
IntersectingFiles(c, i) ==
    SelectSeq([k \in 1..Len(c.lengths) |-> k],
              LAMBDA k : \E g \in BytesOfPiece(c, i) : FileOf(c, g) = k)

\* get_files_by_piece_index(index) returns, and returns the intersecting files
ReturnsIntersectingFiles(index) ==
    LET files == get_files_by_piece_index(call, index) IN
    /\ files # Hang
    /\ [k \in 1..Len(files) |-> files[k][1]] = IntersectingFiles(call, index)

\* write_piece_on_multiple_files(index) has called get_files_by_piece_index(index)
GetsFilesOf(index) == index \in result'.attempted /\ index \notin result.attempted

\* C40: get_files_by_piece_index terminates for every valid piece index and
\* every multi-file layout, also for a piece that ends in the middle of a
\* file or spans several files, and returns each intersecting file exactly
\* once, in file order.
C40_GetFilesTerminatesInFileOrder ==
    [][ \A index \in 0..(MaxFiles * MaxFileLength - 1) :
            GetsFilesOf(index) => ReturnsIntersectingFiles(index) ]_vars

====
